---- MODULE Spec2Model ----
(***************************************************************************)
(* atol-canopy: the submission staging tables, the fetched archive, the    *)
(* record store and the bulk import jobs, as state machines over the       *)
(* request handlers of app/api/v1/endpoints.                               *)
(*                                                                         *)
(* A request handler is one action: it runs in one request-scoped          *)
(* transaction.  A bulk import commits once per input row, so a job is a   *)
(* sequence of per-row steps.                                              *)
(*                                                                         *)
(* Field names follow the staging vocabulary submission_json/submitted_at; *)
(* the sample and experiment tables call them submitted_json/submitted_at, *)
(* the assembly table submission_json/submission_at.                       *)
(***************************************************************************)
EXTENDS Integers, Sequences, FiniteSets, TLC

VARIABLES
    organism,    \* table organism:   id -> row
    sample,      \* table sample:     id -> row
    experiment,  \* table experiment: id -> row
    read,        \* table read:       id -> row
    staged,      \* the staging rows (sample_submitted, experiment_submitted,
                 \* assembly_submission), in insertion order
    fetched,     \* the fetched rows (sample_fetched, experiment_fetched,
                 \* assembly_fetched), in insertion order
    job,         \* the running bulk import jobs: job id -> job state
    history,     \* the last bulk import jobs that returned, oldest first: what
                 \* each was given, what it returned, the tables before and after
    response,    \* the last response sent: operation, caller, status code, body
    users,       \* table users: id -> row (is_active)
    refresh_tokens,  \* table refresh_token, in insertion order
    request      \* the /refresh requests: request id -> what the handler read
                 \* and, once it returned, what it answered

vars == <<organism, sample, experiment, read, staged, fetched, job, history, response,
          users, refresh_tokens, request>>

store == <<organism, sample, experiment, read>>

bulk == <<job, history>>

auth == <<users, refresh_tokens, request>>

-----------------------------------------------------------------------------
(* Values *)

\* Python None, SQL NULL
NULL == "NULL"

\* a required-or-defaulted field the request body does not carry
UNSET == "UNSET"

\* a nullable JSONB column or Optional[Dict] field: << >> is None, <<d>> is
\* the object d
JsonNull == << >>
Json(d) == <<d>>

\* `not json` in Python: None or the empty object
Falsy(json) == json = JsonNull \/ DOMAIN json[1] = {}

DRAFT == "draft"
READY == "ready"
SUBMITTED == "submission"
REJECTED == "rejected"

\* class SubmissionStatus(str, Enum)
SubmissionStatus == {DRAFT, READY, SUBMITTED, REJECTED}

\* the values of the read table's status column
ReadStatus == {"draft", "submitted", "rejected"}

\* a status string no member of SubmissionStatus
OtherStatus == "submitted"

\* the status strings a request body may carry
StatusInputs == SubmissionStatus \cup {OtherStatus}

\* a JSON object sent as submission_json
JsonInputs == {Json([title |-> "t"])}

\* the timestamps a request may carry, and their order
Times == {"T1", "T2"}
TimeRank == [T1 |-> 1, T2 |-> 2]

\* the accessions the registry hands out
Accessions == {"ACC1", "ACC2"}

-----------------------------------------------------------------------------
(* Callers (app/models/user.py) *)

Users ==
    [ viewer   |-> [roles |-> {},          is_active |-> TRUE,  is_superuser |-> FALSE],
      curator  |-> [roles |-> {"curator"}, is_active |-> TRUE,  is_superuser |-> FALSE],
      admin    |-> [roles |-> {"admin"},   is_active |-> TRUE,  is_superuser |-> FALSE],
      root     |-> [roles |-> {},          is_active |-> TRUE,  is_superuser |-> TRUE],
      inactive |-> [roles |-> {"curator"}, is_active |-> FALSE, is_superuser |-> FALSE] ]

Callers == DOMAIN Users

\* get_current_active_user: an inactive caller gets 400
get_current_active_user(u) == Users[u].is_active

\* has_role(required_roles).role_checker: some required role is held, or the
\* caller is a superuser
role_checker(u, required_roles) ==
    \E role \in required_roles : role \in Users[u].roles \/ Users[u].is_superuser

\* require_role(current_user, roles): raises 403 unless the caller holds one
\* of the roles or is privileged
require_role(u, required_roles) == role_checker(u, required_roles)

\* get_current_superuser: the privileged caller
get_current_superuser(u) == Users[u].is_active /\ Users[u].is_superuser

WriteRoles == {"curator", "admin"}

-----------------------------------------------------------------------------
(* Helpers *)

\* the response of a handler; body is a set (empty when the body is not modelled)
Respond(op, u, code, body) ==
    response' = [op |-> op, caller |-> u, code |-> code, body |-> body]

NoResponse == [op |-> "none", caller |-> "viewer", code |-> 0, body |-> {}]

\* the primary keys uuid.uuid4() can give the rows of each record table
OrganismIds == {"o1", "o2"}
SampleIds == {"s1", "s2", "s3"}
ExperimentIds == {"e1", "e2"}
ReadIds == {"r1", "r2"}

\* uuid.uuid4(): a key of the pool that no row of the table has
FreshId(pool, table) == CHOOSE i \in pool : i \notin DOMAIN table

Insert(table, id, row) == [i \in DOMAIN table \cup {id} |-> IF i = id THEN row ELSE table[i]]

Remove(table, id) == [i \in DOMAIN table \ {id} |-> table[i]]

-----------------------------------------------------------------------------
(* Bounds *)

\* staging rows the model lets the tables hold
MaxStaged == 1

\* fetched rows the model lets the archive hold
MaxFetched == 2

-----------------------------------------------------------------------------
(* Database constraints (app/models) *)

\* a foreign key column: NULL where the column is nullable, else a row of the
\* referenced table
FkOk(v, table, nullable) == IF v = NULL THEN nullable ELSE v \in DOMAIN table

\* the foreign keys of a staging row, by table:
\*   sample_submitted:     sample_id, organism_id nullable
\*   experiment_submitted: experiment_id nullable, sample_id NOT NULL
\*   assembly_submission:  organism_id, sample_id NOT NULL, experiment_id nullable
StagedFkOk(row) ==
    /\ FkOk(row.organism_id, organism, row.kind # "assembly")
    /\ FkOk(row.sample_id, sample, row.kind = "sample")
    /\ FkOk(row.experiment_id, experiment, TRUE)

\* the status column: String NOT NULL in sample_submitted and
\* experiment_submitted, Enum(draft, ready, submission, rejected) NOT NULL in
\* assembly_submission
StatusColumnOk(kind, s) ==
    /\ s # NULL
    /\ kind = "assembly" => s \in SubmissionStatus

-----------------------------------------------------------------------------
(* Request schemas (app/schemas) *)

\* SampleSubmittedCreate, ExperimentSubmittedCreate: status: str, required
SampleSubmittedCreate(inp) == inp.status \notin {UNSET, NULL}

ExperimentSubmittedCreate(inp) == inp.status \notin {UNSET, NULL}

\* AssemblySubmissionCreate: status: SubmissionStatus, default DRAFT
AssemblySubmissionCreate(inp) == inp.status \in SubmissionStatus \cup {UNSET}

\* SampleSubmittedUpdate, ExperimentSubmittedUpdate: status: Optional[str]
SampleSubmittedUpdate(inp) == TRUE

ExperimentSubmittedUpdate(inp) == TRUE

\* AssemblySubmissionUpdate: status: Optional[SubmissionStatus]
AssemblySubmissionUpdate(inp) == inp.status \in SubmissionStatus \cup {NULL}

\* the value a create schema hands the handler for status
CreateStatus(kind, inp) ==
    IF kind = "assembly" /\ inp.status = UNSET THEN DRAFT ELSE inp.status

-----------------------------------------------------------------------------
(* Staging endpoints *)

\* the row a create handler builds from the request body
NewStagedRow(kind, inp) ==
    [ kind            |-> kind,
      organism_id     |-> inp.organism_id,
      sample_id       |-> inp.sample_id,
      experiment_id   |-> inp.experiment_id,
      status          |-> CreateStatus(kind, inp),
      submission_json |-> inp.submission_json,
      submitted_at    |-> inp.submitted_at ]

\* create_submission without the call of require_role
create_submission_without_role(kind, op, valid, u, inp) ==
    /\ Len(staged) < MaxStaged
    /\ UNCHANGED <<store, fetched, bulk, auth>>
    /\ IF ~get_current_active_user(u)
         THEN Respond(op, u, 400, {}) /\ UNCHANGED staged
       ELSE IF ~valid
         THEN Respond(op, u, 422, {}) /\ UNCHANGED staged
       ELSE LET row == NewStagedRow(kind, inp) IN
            IF ~(StagedFkOk(row) /\ StatusColumnOk(kind, row.status))
              THEN Respond(op, u, 500, {}) /\ UNCHANGED staged
              ELSE /\ staged' = Append(staged, row)
                   /\ Respond(op, u, 200, {Len(staged) + 1})

\* POST /submitted/ and POST /submission/: the body of the three create
\* handlers; `valid` is the request schema's verdict on the body
create_submission(kind, op, valid, u, inp) ==
    /\ Len(staged) < MaxStaged
    /\ UNCHANGED <<store, fetched, bulk, auth>>
    /\ IF ~get_current_active_user(u)
         THEN Respond(op, u, 400, {}) /\ UNCHANGED staged
       ELSE IF ~valid
         THEN Respond(op, u, 422, {}) /\ UNCHANGED staged
       ELSE IF ~require_role(u, WriteRoles)
         THEN Respond(op, u, 403, {}) /\ UNCHANGED staged
       ELSE LET row == NewStagedRow(kind, inp) IN
            IF ~(StagedFkOk(row) /\ StatusColumnOk(kind, row.status))
              THEN Respond(op, u, 500, {}) /\ UNCHANGED staged
              ELSE /\ staged' = Append(staged, row)
                   /\ Respond(op, u, 200, {Len(staged) + 1})

create_sample_submission(u, inp) ==
    create_submission("sample", "create_sample_submission",
                      SampleSubmittedCreate(inp), u, inp)

create_experiment_submission(u, inp) ==
    create_submission("experiment", "create_experiment_submission",
                      ExperimentSubmittedCreate(inp), u, inp)

create_assembly_submission(u, inp) ==
    create_submission("assembly", "create_assembly_submission",
                      AssemblySubmissionCreate(inp), u, inp)

\* for field, value in update_data.items(): setattr(submission, field, value)
\* update_data = submission_in.dict(exclude_unset=True): the fields the body
\* carries, a field carried as null included
SetAttrs(row, inp) ==
    [ row EXCEPT
        !.status          = IF "status" \in inp.fields_set THEN inp.status ELSE @,
        !.submission_json = IF "submission_json" \in inp.fields_set
                              THEN inp.submission_json ELSE @,
        !.submitted_at    = IF "submitted_at" \in inp.fields_set
                              THEN inp.submitted_at ELSE @ ]

\* PUT /submitted/{submission_id} and PUT /submission/{submission_id}: the
\* body of the three update handlers
update_submission(kind, op, valid, u, id, inp) ==
    /\ UNCHANGED <<store, fetched, bulk, auth>>
    /\ IF ~get_current_active_user(u)
         THEN Respond(op, u, 400, {}) /\ UNCHANGED staged
       ELSE IF ~valid
         THEN Respond(op, u, 422, {}) /\ UNCHANGED staged
       ELSE IF ~require_role(u, WriteRoles)
         THEN Respond(op, u, 403, {}) /\ UNCHANGED staged
       ELSE IF ~(id \in DOMAIN staged /\ staged[id].kind = kind)
         THEN Respond(op, u, 404, {}) /\ UNCHANGED staged
       ELSE LET row == SetAttrs(staged[id], inp) IN
            IF ~StatusColumnOk(kind, row.status)
              THEN Respond(op, u, 500, {}) /\ UNCHANGED staged
              ELSE /\ staged' = [staged EXCEPT ![id] = row]
                   /\ Respond(op, u, 200, {id})

update_sample_submission(u, id, inp) ==
    update_submission("sample", "update_sample_submission",
                      SampleSubmittedUpdate(inp), u, id, inp)

update_experiment_submission(u, id, inp) ==
    update_submission("experiment", "update_experiment_submission",
                      ExperimentSubmittedUpdate(inp), u, id, inp)

update_assembly_submission(u, id, inp) ==
    update_submission("assembly", "update_assembly_submission",
                      AssemblySubmissionUpdate(inp), u, id, inp)

\* GET /submitted/ and GET /submission/, with the optional status filter
read_submissions(kind, op, u, filter) ==
    /\ UNCHANGED <<store, staged, fetched, bulk, auth>>
    /\ IF ~get_current_active_user(u)
         THEN Respond(op, u, 400, {})
         ELSE Respond(op, u, 200,
                      {i \in DOMAIN staged :
                          /\ staged[i].kind = kind
                          /\ filter # NULL => staged[i].status = filter})

read_sample_submissions(u, filter) ==
    read_submissions("sample", "read_sample_submissions", u, filter)

read_experiment_submissions(u, filter) ==
    read_submissions("experiment", "read_experiment_submissions", u, filter)

read_assembly_submissions(u, filter) ==
    read_submissions("assembly", "read_assembly_submissions", u, filter)

-----------------------------------------------------------------------------
(* The staging tables under direct API calls *)

\* request bodies of the create handlers
CreateInputs ==
    [ organism_id     : {NULL} \cup DOMAIN organism,
      sample_id       : {NULL} \cup DOMAIN sample,
      experiment_id   : {NULL},
      status          : StatusInputs \cup {UNSET},
      submission_json : {JsonNull} \cup JsonInputs,
      submitted_at    : {NULL, "T1"} ]

\* request bodies of the update handlers
UpdateFields == {"status", "submission_json", "submitted_at"}

\* request bodies of the update handlers: the fields carried, and their values
\* (None for a field that is not carried)
UpdateInputs ==
    { [ fields_set      |-> F,
        status          |-> IF "status" \in F THEN s ELSE NULL,
        submission_json |-> IF "submission_json" \in F THEN j ELSE JsonNull,
        submitted_at    |-> IF "submitted_at" \in F THEN t ELSE NULL ] :
      F \in SUBSET UpdateFields,
      s \in StatusInputs \cup {NULL},
      j \in {JsonNull} \cup JsonInputs,
      t \in {NULL, "T1"} }

\* the record store after construction: one organism and one sample of it
InitOrganism == [i \in {"o1"} |-> [organism_grouping_key |-> "k1", tax_id |-> "t1"]]

InitSample ==
    [i \in {"s1"} |-> [organism_id |-> "o1", bpa_sample_id |-> "b1", sample_accession |-> NULL]]

Init ==
    /\ organism = InitOrganism
    /\ sample = InitSample
    /\ experiment = << >>
    /\ read = << >>
    /\ staged = << >>
    /\ fetched = << >>
    /\ job = << >>
    /\ history = << >>
    /\ response = NoResponse
    /\ users = [u \in DOMAIN Users |-> [is_active |-> Users[u].is_active]]
    /\ refresh_tokens = << >>
    /\ request = << >>

Next ==
    \/ \E u \in Callers, inp \in CreateInputs : create_sample_submission(u, inp)
    \/ \E u \in Callers, inp \in CreateInputs : create_experiment_submission(u, inp)
    \/ \E u \in Callers, inp \in CreateInputs : create_assembly_submission(u, inp)
    \/ \E u \in Callers, id \in 1..MaxStaged, inp \in UpdateInputs :
          update_sample_submission(u, id, inp)
    \/ \E u \in Callers, id \in 1..MaxStaged, inp \in UpdateInputs :
          update_experiment_submission(u, id, inp)
    \/ \E u \in Callers, id \in 1..MaxStaged, inp \in UpdateInputs :
          update_assembly_submission(u, id, inp)
    \/ \E u \in Callers, f \in {NULL} \cup SubmissionStatus : read_sample_submissions(u, f)
    \/ \E u \in Callers, f \in {NULL} \cup SubmissionStatus : read_experiment_submissions(u, f)
    \/ \E u \in Callers, f \in {NULL} \cup SubmissionStatus : read_assembly_submissions(u, f)

Spec == Init /\ [][Next]_vars

-----------------------------------------------------------------------------
(* The staging state machine: claims C1 to C6 *)

\* C1: once the status of a staging row is SUBMITTED or REJECTED, no later
\* operation changes the status of that row.
C1_TerminalStatusNeverChanges ==
    [][\A i \in DOMAIN staged :
          staged[i].status \in {SUBMITTED, REJECTED}
             => staged'[i].status = staged[i].status]_vars

\* C2: no single operation takes a row from DRAFT directly to SUBMITTED, none
\* takes a row from SUBMITTED back to DRAFT, and a row enters REJECTED only
\* from READY or SUBMITTED.
C2_OrderedTransitions ==
    [][\A i \in DOMAIN staged :
          /\ ~(staged[i].status = DRAFT /\ staged'[i].status = SUBMITTED)
          /\ ~(staged[i].status = SUBMITTED /\ staged'[i].status = DRAFT)
          /\ (staged'[i].status = REJECTED /\ staged[i].status # REJECTED)
                => staged[i].status \in {READY, SUBMITTED}]_vars

\* C3: every newly inserted staging row has status DRAFT.
C3_NewRowIsDraft ==
    [][\A i \in DOMAIN staged' \ DOMAIN staged : staged'[i].status = DRAFT]_vars

\* C4: in every reachable state every stored status, of a staging row or of a
\* read, is one of the four tags DRAFT, READY, SUBMITTED, REJECTED.
C4_StatusIsClosedTagSet ==
    /\ \A i \in DOMAIN staged : staged[i].status \in SubmissionStatus
    /\ \A r \in DOMAIN read : read[r].status \in SubmissionStatus

\* C5: in every reachable state a staging row whose status is not DRAFT has a
\* non-null submission_json.
C5_JsonPresentOutsideDraft ==
    \A i \in DOMAIN staged :
        staged[i].status # DRAFT => staged[i].submission_json # JsonNull

\* C6: submitted_at of a staging row becomes non-null only in a step that moves
\* the row into SUBMITTED: no create and no update that leaves the row in
\* another status gives it a submitted_at.
C6_SubmittedAtOnlyOnSubmit ==
    [][\A i \in DOMAIN staged' :
          LET before == IF i \in DOMAIN staged THEN staged[i].submitted_at ELSE NULL
          IN  (staged'[i].submitted_at # NULL /\ staged'[i].submitted_at # before)
                 => staged'[i].status = SUBMITTED]_vars

-----------------------------------------------------------------------------
(* Fetched endpoints *)

\* a fetched row:
\*   kind        the table: sample_fetched, experiment_fetched, assembly_fetched
\*   record_id   the record the result is for: sample_fetched.sample_id,
\*               experiment_fetched.experiment_id, assembly_fetched.assembly_id
\*   sample_id   experiment_fetched.sample_id, assembly_fetched.sample_id
\*   accession   the accession the registry reported
\*   fetched_at  when it reported it
NewFetchedRow(kind, inp) ==
    [ kind       |-> kind,
      record_id  |-> inp.record_id,
      sample_id  |-> inp.sample_id,
      accession  |-> inp.accession,
      fetched_at |-> inp.fetched_at ]

\* SampleFetchedCreate: the accession and fetched_at are required
SampleFetchedCreate(inp) == inp.accession # UNSET /\ inp.fetched_at # UNSET

\* ExperimentFetchedCreate, AssemblyFetchedCreate: sample_id: UUID is required
\* as well
ExperimentFetchedCreate(inp) ==
    inp.accession # UNSET /\ inp.fetched_at # UNSET /\ inp.sample_id # NULL

AssemblyFetchedCreate(inp) ==
    inp.accession # UNSET /\ inp.fetched_at # UNSET /\ inp.sample_id # NULL

\* the foreign keys of a fetched row, by table:
\*   sample_fetched:     sample_id nullable
\*   experiment_fetched: experiment_id nullable, sample_id NOT NULL
\*   assembly_fetched:   assembly_id nullable, sample_id NOT NULL
\* (no assembly record exists in this model: assembly_id is NULL or dangling)
FetchedFkOk(row) ==
    /\ row.kind = "sample" => FkOk(row.record_id, sample, TRUE)
    /\ row.kind = "experiment" => FkOk(row.record_id, experiment, TRUE)
    /\ row.kind = "assembly" => row.record_id = NULL
    /\ row.kind # "sample" => FkOk(row.sample_id, sample, FALSE)

\* POST /fetched/: the body of the three create handlers
create_fetch(kind, op, valid, u, inp) ==
    /\ Len(fetched) < MaxFetched
    /\ UNCHANGED <<store, staged, bulk, auth>>
    /\ IF ~get_current_active_user(u)
         THEN Respond(op, u, 400, {}) /\ UNCHANGED fetched
       ELSE IF ~valid
         THEN Respond(op, u, 422, {}) /\ UNCHANGED fetched
       ELSE IF ~require_role(u, WriteRoles)
         THEN Respond(op, u, 403, {}) /\ UNCHANGED fetched
       ELSE LET row == NewFetchedRow(kind, inp) IN
            IF ~FetchedFkOk(row)
              THEN Respond(op, u, 500, {}) /\ UNCHANGED fetched
              ELSE /\ fetched' = Append(fetched, row)
                   /\ Respond(op, u, 200, {Len(fetched) + 1})

create_sample_fetch(u, inp) ==
    create_fetch("sample", "create_sample_fetch", SampleFetchedCreate(inp), u, inp)

create_experiment_fetch(u, inp) ==
    create_fetch("experiment", "create_experiment_fetch",
                 ExperimentFetchedCreate(inp), u, inp)

create_assembly_fetch(u, inp) ==
    create_fetch("assembly", "create_assembly_fetch",
                 AssemblyFetchedCreate(inp), u, inp)

\* GET /samples/fetched/
read_sample_fetches(u) ==
    /\ UNCHANGED <<store, staged, fetched, bulk, auth>>
    /\ IF ~get_current_active_user(u)
         THEN Respond("read_sample_fetches", u, 400, {})
         ELSE Respond("read_sample_fetches", u, 200,
                      {i \in DOMAIN fetched : fetched[i].kind = "sample"})

\* SampleFetchedService.get_by_sample_id: the fetched rows of a sample, in no
\* particular order
get_by_sample_id(sample_id) ==
    {i \in DOMAIN fetched :
        fetched[i].kind = "sample" /\ fetched[i].record_id = sample_id}

-----------------------------------------------------------------------------
(* Record endpoints and XML export *)

\* PUT /samples/{sample_id}: setattr of the fields the body carries; the
\* accession column of sample is unique
update_sample(u, id, inp) ==
    /\ UNCHANGED <<organism, experiment, read, staged, fetched, bulk, auth>>
    /\ IF ~get_current_active_user(u)
         THEN Respond("update_sample", u, 400, {}) /\ UNCHANGED sample
       ELSE IF ~require_role(u, WriteRoles)
         THEN Respond("update_sample", u, 403, {}) /\ UNCHANGED sample
       ELSE IF id \notin DOMAIN sample
         THEN Respond("update_sample", u, 404, {}) /\ UNCHANGED sample
       ELSE LET acc == IF "sample_accession" \in inp.fields_set
                         THEN inp.sample_accession
                         ELSE sample[id].sample_accession
            IN  IF acc # NULL /\ \E o \in DOMAIN sample \ {id} :
                                    sample[o].sample_accession = acc
                  THEN Respond("update_sample", u, 500, {}) /\ UNCHANGED sample
                  ELSE /\ sample' = [sample EXCEPT ![id].sample_accession = acc]
                       /\ Respond("update_sample", u, 200, {id})

\* the rows that keep db.delete(sample) from committing: the ORM nulls the
\* foreign key of the rows behind a backref of Sample, which the NOT NULL
\* columns experiment.sample_id and assembly.sample_id refuse, and leaves the
\* other referencing rows to the foreign key constraint
BlocksDeleteSample(id) ==
    \/ \E e \in DOMAIN experiment : experiment[e].sample_id = id
    \/ \E i \in DOMAIN staged : staged[i].kind # "sample" /\ staged[i].sample_id = id
    \/ \E i \in DOMAIN fetched : fetched[i].kind # "sample" /\ fetched[i].sample_id = id

\* DELETE /samples/{sample_id}; the rows behind the backrefs submitted_records
\* and fetched_records, whose sample_id is nullable, are updated to
\* sample_id = NULL by the ORM before the sample is deleted
delete_sample(u, id) ==
    /\ UNCHANGED <<organism, experiment, read, bulk, auth>>
    /\ IF ~get_current_superuser(u)
         THEN Respond("delete_sample", u, 403, {}) /\ UNCHANGED <<sample, staged, fetched>>
       ELSE IF id \notin DOMAIN sample
         THEN Respond("delete_sample", u, 404, {}) /\ UNCHANGED <<sample, staged, fetched>>
       ELSE IF BlocksDeleteSample(id)
         THEN Respond("delete_sample", u, 500, {}) /\ UNCHANGED <<sample, staged, fetched>>
       ELSE /\ sample' = Remove(sample, id)
            /\ staged' = [i \in DOMAIN staged |->
                            IF staged[i].kind = "sample" /\ staged[i].sample_id = id
                              THEN [staged[i] EXCEPT !.sample_id = NULL]
                              ELSE staged[i]]
            /\ fetched' = [i \in DOMAIN fetched |->
                            IF fetched[i].kind = "sample" /\ fetched[i].record_id = id
                              THEN [fetched[i] EXCEPT !.record_id = NULL]
                              ELSE fetched[i]]
            /\ Respond("delete_sample", u, 200, {id})

\* GET /xml/samples/{sample_id}; the body of the response is the document,
\* here the sample it is for and the accession it carries (NULL: no accession
\* attribute); .first() without order_by is any matching row
get_sample_xml(u, sample_id) ==
    /\ UNCHANGED <<store, staged, fetched, bulk, auth>>
    /\ IF ~get_current_active_user(u)
         THEN Respond("get_sample_xml", u, 400, {})
       ELSE LET found == {i \in DOMAIN staged :
                            staged[i].kind = "sample" /\ staged[i].sample_id = sample_id}
            IN  IF found = {}
                  THEN Respond("get_sample_xml", u, 404, {})
                  ELSE \E i \in found :
                         LET sample_submission == staged[i] IN
                         IF Falsy(sample_submission.submission_json)
                           THEN Respond("get_sample_xml", u, 400, {})
                         ELSE IF sample_submission.organism_id = NULL
                           THEN Respond("get_sample_xml", u, 400, {})
                         ELSE IF sample_submission.organism_id \notin DOMAIN organism
                           THEN Respond("get_sample_xml", u, 404, {})
                         ELSE Respond("get_sample_xml", u, 200,
                                {[ sample_id |-> sample_id,
                                   accession |->
                                     IF sample_id \in DOMAIN sample
                                       THEN sample[sample_id].sample_accession
                                       ELSE NULL ]})

-----------------------------------------------------------------------------
(* The fetched archive under API calls *)

\* request bodies of create_sample_fetch
FetchInputs ==
    [ record_id  : {NULL} \cup DOMAIN sample,
      sample_id  : {NULL},
      accession  : Accessions \cup {UNSET},
      fetched_at : Times ]

\* request bodies of create_experiment_fetch and create_assembly_fetch
DependentFetchInputs ==
    [ record_id  : {NULL},
      sample_id  : {NULL} \cup DOMAIN sample,
      accession  : {"ACC1"},
      fetched_at : {"T1"} ]

\* the sample ids the requests name: one that is stored, one that is not
FetchSampleIds == {"s1", "s2"}

\* the callers of the requests: one without a role, one with, one privileged
FetchCallers == {"viewer", "curator", "root"}

\* request bodies of create_sample_submission that stage a sample for export
StageInputs ==
    [ organism_id     : {NULL} \cup DOMAIN organism,
      sample_id       : DOMAIN sample,
      experiment_id   : {NULL},
      status          : {DRAFT},
      submission_json : {JsonNull} \cup JsonInputs,
      submitted_at    : {NULL} ]

\* request bodies of update_sample
SampleUpdateInputs ==
    { [ fields_set       |-> F,
        sample_accession |-> IF "sample_accession" \in F THEN a ELSE NULL ] :
      F \in SUBSET {"sample_accession"}, a \in Accessions \cup {NULL} }

NextFetch ==
    \/ \E u \in FetchCallers, inp \in FetchInputs : create_sample_fetch(u, inp)
    \/ \E u \in FetchCallers, inp \in DependentFetchInputs : create_experiment_fetch(u, inp)
    \/ \E u \in FetchCallers, inp \in DependentFetchInputs : create_assembly_fetch(u, inp)
    \/ \E u \in FetchCallers : read_sample_fetches(u)
    \/ \E u \in FetchCallers, inp \in StageInputs : create_sample_submission(u, inp)
    \/ \E u \in FetchCallers, id \in FetchSampleIds, inp \in SampleUpdateInputs :
          update_sample(u, id, inp)
    \/ \E u \in FetchCallers, id \in FetchSampleIds : delete_sample(u, id)
    \/ \E u \in FetchCallers, id \in FetchSampleIds : get_sample_xml(u, id)

SpecFetch == Init /\ [][NextFetch]_vars

\* C8: the fetched archive is append-only: every step keeps every fetched row
\* in place with the field values it was inserted with, and a successful
\* insert of a fetch result adds one row, also when the record already has one.
C8_FetchedArchiveAppendOnly ==
    [][/\ \A i \in DOMAIN fetched : i \in DOMAIN fetched' /\ fetched'[i] = fetched[i]
       /\ (response'.op \in {"create_sample_fetch", "create_experiment_fetch",
                             "create_assembly_fetch"} /\ response'.code = 200)
             => Len(fetched') = Len(fetched) + 1]_vars

\* C9: whenever the XML document of a sample that has fetched rows is built,
\* the accession it carries is that of a fetched row of the sample with the
\* greatest fetched_at.
C9_AccessionIsLatestFetched ==
    (response.op = "get_sample_xml" /\ response.code = 200) =>
        \A doc \in response.body :
            get_by_sample_id(doc.sample_id) # {} =>
                \E i \in get_by_sample_id(doc.sample_id) :
                    /\ \A j \in get_by_sample_id(doc.sample_id) :
                          TimeRank[fetched[j].fetched_at] <= TimeRank[fetched[i].fetched_at]
                    /\ doc.accession = fetched[i].accession

-----------------------------------------------------------------------------
(* Who may write the staging tables: claim C7 *)

\* request bodies of the create handlers: with a status, without one, with a
\* status outside SubmissionStatus
AuthCreateInputs ==
    [ organism_id     : DOMAIN organism,
      sample_id       : DOMAIN sample,
      experiment_id   : {NULL},
      status          : {DRAFT, UNSET, OtherStatus},
      submission_json : {JsonNull},
      submitted_at    : {NULL} ]

\* request bodies of the update handlers: empty, or a status (null included)
AuthUpdateInputs ==
    { [ fields_set      |-> F,
        status          |-> IF "status" \in F THEN s ELSE NULL,
        submission_json |-> JsonNull,
        submitted_at    |-> NULL ] :
      F \in SUBSET {"status"}, s \in {READY, OtherStatus, NULL} }

NextAuth ==
    \/ \E u \in Callers, inp \in AuthCreateInputs : create_sample_submission(u, inp)
    \/ \E u \in Callers, inp \in AuthCreateInputs : create_experiment_submission(u, inp)
    \/ \E u \in Callers, inp \in AuthCreateInputs : create_assembly_submission(u, inp)
    \/ \E u \in Callers, id \in 1..MaxStaged, inp \in AuthUpdateInputs :
          update_sample_submission(u, id, inp)
    \/ \E u \in Callers, id \in 1..MaxStaged, inp \in AuthUpdateInputs :
          update_experiment_submission(u, id, inp)
    \/ \E u \in Callers, id \in 1..MaxStaged, inp \in AuthUpdateInputs :
          update_assembly_submission(u, id, inp)
    \/ \E u \in Callers, f \in {NULL, DRAFT} : read_sample_submissions(u, f)
    \/ \E u \in Callers, f \in {NULL, DRAFT} : read_experiment_submissions(u, f)
    \/ \E u \in Callers, f \in {NULL, DRAFT} : read_assembly_submissions(u, f)

SpecAuth == Init /\ [][NextAuth]_vars

\* C7 as stated: a create or update of a staging row by a caller who holds
\* neither the curator nor the admin role and is not privileged fails with a
\* permission error (403) and leaves the staging table unchanged; the staging
\* table changes only at the request of a caller who holds one; a read by an
\* active caller succeeds.
C7_OtherCallerGetsPermissionError ==
    [][LET u == response'.caller
           permitted == Users[u].roles \cap {"curator", "admin"} # {} \/ Users[u].is_superuser
       IN  /\ staged' # staged => permitted
           /\ (response'.op \in {"create_sample_submission", "create_experiment_submission",
                                 "create_assembly_submission", "update_sample_submission",
                                 "update_experiment_submission", "update_assembly_submission"}
                 /\ ~permitted)
                 => response'.code = 403 /\ staged' = staged
           /\ (response'.op \in {"read_sample_submissions", "read_experiment_submissions",
                                 "read_assembly_submissions"} /\ Users[u].is_active)
                 => response'.code = 200]_vars

\* C7, amended: the staging table changes only at the request of an active
\* caller who holds the curator or admin role or is privileged; a create or
\* update by any other active caller leaves it unchanged and is answered 403
\* when the request body is valid and 422 when it is not (the body is
\* validated before the role is checked); a read by an active caller is
\* answered 200 whatever the caller's roles.
C7_RoleGatedWrites ==
    [][/\ staged' # staged =>
             /\ Users[response'.caller].is_active
             /\ \/ Users[response'.caller].roles \cap {"curator", "admin"} # {}
                \/ Users[response'.caller].is_superuser
       /\ \A u \in Callers :
             (/\ Users[u].is_active
              /\ Users[u].roles \cap {"curator", "admin"} = {}
              /\ ~Users[u].is_superuser)
             => /\ \A inp \in AuthCreateInputs :
                     /\ create_sample_submission(u, inp) =>
                           /\ staged' = staged
                           /\ response'.code = IF SampleSubmittedCreate(inp) THEN 403 ELSE 422
                     /\ create_experiment_submission(u, inp) =>
                           /\ staged' = staged
                           /\ response'.code = IF ExperimentSubmittedCreate(inp) THEN 403 ELSE 422
                     /\ create_assembly_submission(u, inp) =>
                           /\ staged' = staged
                           /\ response'.code = IF AssemblySubmissionCreate(inp) THEN 403 ELSE 422
                /\ \A id \in 1..MaxStaged, inp \in AuthUpdateInputs :
                     /\ update_sample_submission(u, id, inp) =>
                           /\ staged' = staged
                           /\ response'.code = IF SampleSubmittedUpdate(inp) THEN 403 ELSE 422
                     /\ update_experiment_submission(u, id, inp) =>
                           /\ staged' = staged
                           /\ response'.code = IF ExperimentSubmittedUpdate(inp) THEN 403 ELSE 422
                     /\ update_assembly_submission(u, id, inp) =>
                           /\ staged' = staged
                           /\ response'.code = IF AssemblySubmissionUpdate(inp) THEN 403 ELSE 422
       /\ (response'.op \in {"read_sample_submissions", "read_experiment_submissions",
                             "read_assembly_submissions"}
             /\ Users[response'.caller].is_active)
             => response'.code = 200]_vars

\* a caller without a role asked to change an existing staging row and was
\* answered 403
C7_Witness ==
    /\ staged # << >>
    /\ response.op = "update_sample_submission"
    /\ response.caller = "viewer"
    /\ response.code = 403

-----------------------------------------------------------------------------
(* Bulk import: input data *)

\* ena_atol_map["sample"], ["experiment"], ["run"] of config/ena-atol-map.json:
\* registry key -> payload key
sample_mapping == [title |-> "sample_name", collection_date |-> "collected"]

experiment_mapping == [library_name |-> "bpa_library_id", platform |-> "platform"]

run_mapping == [file_name |-> "file_name", checksum |-> "file_checksum"]

\* the mapping applied with a default: every registry key gets an entry, an
\* empty one when the payload lacks the key
MapJson_with_defaults(mapping, data) ==
    Json([ena_key \in DOMAIN mapping |->
             IF mapping[ena_key] \in DOMAIN data THEN data[mapping[ena_key]] ELSE ""])

\* for ena_key, atol_key in mapping.items():
\*     if atol_key in data: submitted_json[ena_key] = data[atol_key]
MapJson(mapping, data) ==
    Json([ena_key \in {k \in DOMAIN mapping : mapping[k] \in DOMAIN data} |->
             data[mapping[ena_key]]])

\* data.get(key): None when the payload has no such key
Get(data, key) == IF key \in DOMAIN data THEN data[key] ELSE NULL

\* a payload value that `not value` does not reject
Truthy(value) == value \notin {NULL, ""}

\* input rows of bulk_import_organisms, <<organism_grouping_key, organism_data>>:
\* one that is stored already, one that is new, one without taxon_id
org_k1 == <<"k1", [taxon_id |-> "t1", organism_grouping_key |-> "k1", scientific_name |-> "n1"]>>
org_k2 == <<"k2", [taxon_id |-> "t2", organism_grouping_key |-> "k2", scientific_name |-> "n2"]>>
org_k3 == <<"k3", [organism_grouping_key |-> "k3", scientific_name |-> "n3"]>>

\* input rows of bulk_import_samples, <<bpa_sample_id, sample_data>>: one that
\* is stored already, one of organism k1, one of organism k2, one without
\* organism_grouping_key
smp_b1 == <<"b1", [organism_grouping_key |-> "k1", sample_name |-> "x1"]>>
smp_b2 == <<"b2", [organism_grouping_key |-> "k1", sample_name |-> "x2", lat |-> "0"]>>
smp_b3 == <<"b3", [organism_grouping_key |-> "k2", collected |-> "c3"]>>
smp_b4 == <<"b4", [sample_name |-> "x4"]>>

\* input rows of bulk_import_experiments, <<package_id, experiment_data>>: one
\* with a run, one of a sample that is not stored, one without bpa_sample_id,
\* one without bpa_library_id
exp_p1 == <<"p1", [bpa_sample_id |-> "b1", bpa_library_id |-> "l1",
                   runs |-> <<[bpa_dataset_id |-> "d1", bpa_resource_id |-> "f1",
                               file_name |-> "f1.gz"]>>]>>
exp_p2 == <<"p2", [bpa_sample_id |-> "b9", bpa_library_id |-> "l2"]>>
exp_p3 == <<"p3", [bpa_library_id |-> "l3"]>>
exp_p4 == <<"p4", [bpa_sample_id |-> "b1", platform |-> "hifi"]>>

\* the request bodies: a Dict keeps its items in insertion order
OrganismDatasets == {<<org_k1, org_k2>>, <<org_k3>>}
SampleDatasets == {<<smp_b1, smp_b2, smp_b3>>, <<smp_b4>>}
ExperimentDatasets == {<<exp_p1, exp_p2>>, <<exp_p3, exp_p4>>}

-----------------------------------------------------------------------------
(* Bulk import: jobs *)

\* bounds: the returned jobs the model remembers
MaxHistory == 2

\* the tables a bulk import writes
Tables == <<organism, sample, experiment, read, staged>>

\* the status a staging row gets when the insert names none: the default of
\* the status column
StatusColumnDefault == DRAFT

\* the state of a bulk import request that passed the role check:
\*   data, idx       the input rows and the position of the loop
\*   phase           "check": the row's lookups come next; "commit": the row
\*                   passed them, its inserts and db.commit() come next
\*   parent          the id the parent lookup of the row returned
\*   created_count, skipped_count, debug   the counters of the handler
\*   failed          rows whose try block raised
\*   before, alone   the tables when the job started; whether no other job
\*                   ran while it did
NewJob(kind, u, data) ==
    [ kind          |-> kind,
      caller        |-> u,
      data          |-> data,
      idx           |-> 1,
      phase         |-> "check",
      parent        |-> NULL,
      created_count |-> 0,
      skipped_count |-> 0,
      debug         |-> [missing_bpa_sample_id |-> 0, missing_sample |-> 0,
                         existing_experiment |-> 0, missing_required_fields |-> 0],
      failed        |-> 0,
      before        |-> Tables,
      alone         |-> DOMAIN job = {} ]

\* the request reaches the handler: get_current_active_user, then
\* require_role in the body; the loop starts
bulk_import_begin(kind, op, j, u, data) ==
    /\ j \notin DOMAIN job
    /\ UNCHANGED <<store, staged, fetched, history, auth>>
    /\ IF ~get_current_active_user(u)
         THEN Respond(op, u, 400, {}) /\ UNCHANGED job
       ELSE IF ~require_role(u, WriteRoles)
         THEN Respond(op, u, 403, {}) /\ UNCHANGED job
       ELSE /\ job' = [i \in DOMAIN job \cup {j} |->
                         IF i = j THEN NewJob(kind, u, data)
                                  ELSE [job[i] EXCEPT !.alone = FALSE]]
            /\ UNCHANGED response

\* continue, without skipped_count += 1
Skip_without_count(j) ==
    job' = [job EXCEPT ![j].idx = @ + 1]

\* skipped_count += 1; continue
Skip(j) ==
    job' = [job EXCEPT ![j].skipped_count = @ + 1, ![j].idx = @ + 1]

\* <reason>_count += 1; skipped_count += 1; continue
SkipFor(j, reason) ==
    job' = [job EXCEPT ![j].skipped_count = @ + 1, ![j].idx = @ + 1,
                       ![j].debug[reason] = @ + 1]

\* the row passed the lookups: the try block comes next
Proceed(j, parent) ==
    job' = [job EXCEPT ![j].phase = "commit", ![j].parent = parent]

\* db.commit(); created_count += 1
Created(j) ==
    job' = [job EXCEPT ![j].created_count = @ + 1, ![j].idx = @ + 1,
                       ![j].phase = "check", ![j].parent = NULL]

\* except Exception: db.rollback(), without skipped_count += 1
RolledBack_without_count(j) ==
    job' = [job EXCEPT ![j].idx = @ + 1,
                       ![j].phase = "check", ![j].parent = NULL,
                       ![j].failed = @ + 1]

\* except Exception: db.rollback(); skipped_count += 1
RolledBack(j) ==
    job' = [job EXCEPT ![j].skipped_count = @ + 1, ![j].idx = @ + 1,
                       ![j].phase = "check", ![j].parent = NULL,
                       ![j].failed = @ + 1]

\* the job j of the given kind is at a row, in the given phase
AtRow(j, kind, phase) ==
    /\ j \in DOMAIN job
    /\ job[j].kind = kind
    /\ job[j].phase = phase
    /\ job[j].idx <= Len(job[j].data)

-----------------------------------------------------------------------------
(* Bulk import: organisms *)

\* POST /organisms/bulk-import
bulk_import_organisms(j, u, data) ==
    bulk_import_begin("organism", "bulk_import_organisms", j, u, data)

\* one pass of the loop up to the try block
bulk_import_organisms_check(j) ==
    /\ AtRow(j, "organism", "check")
    /\ UNCHANGED <<store, staged, fetched, history, response, auth>>
    /\ LET organism_grouping_key == job[j].data[job[j].idx][1]
           organism_data == job[j].data[job[j].idx][2]
       IN  IF "taxon_id" \notin DOMAIN organism_data
             THEN Skip(j)
           ELSE IF "organism_grouping_key" \notin DOMAIN organism_data
             THEN Skip(j)
           ELSE IF \E o \in DOMAIN organism :
                      organism[o].organism_grouping_key = organism_grouping_key
             THEN Skip(j)
           ELSE IF ~Truthy(Get(organism_data, "scientific_name"))
             THEN Skip(j)
           ELSE Proceed(j, NULL)

\* the try block: db.add(organism); db.commit(); the grouping key and tax_id
\* are unique; db_ok is whether the database accepts the commit otherwise
bulk_import_organisms_commit(j, db_ok) ==
    /\ AtRow(j, "organism", "commit")
    /\ UNCHANGED <<sample, experiment, read, staged, fetched, history, response, auth>>
    /\ LET organism_grouping_key == job[j].data[job[j].idx][1]
           organism_data == job[j].data[job[j].idx][2]
           duplicate == \E o \in DOMAIN organism :
                           \/ organism[o].organism_grouping_key = organism_grouping_key
                           \/ organism[o].tax_id = organism_data.taxon_id
       IN  IF db_ok /\ ~duplicate /\ OrganismIds \ DOMAIN organism # {}
             THEN /\ organism' = Insert(organism, FreshId(OrganismIds, organism),
                                        [organism_grouping_key |-> organism_grouping_key,
                                         tax_id |-> organism_data.taxon_id])
                  /\ Created(j)
             ELSE /\ UNCHANGED organism
                  /\ RolledBack(j)

-----------------------------------------------------------------------------
(* Bulk import: samples *)

\* POST /samples/bulk-import
bulk_import_samples(j, u, data) ==
    bulk_import_begin("sample", "bulk_import_samples", j, u, data)

\* one pass of the loop up to the try block
bulk_import_samples_check(j) ==
    /\ AtRow(j, "sample", "check")
    /\ UNCHANGED <<store, staged, fetched, history, response, auth>>
    /\ LET bpa_sample_id == job[j].data[job[j].idx][1]
           sample_data == job[j].data[job[j].idx][2]
       IN  IF \E s \in DOMAIN sample : sample[s].bpa_sample_id = bpa_sample_id
             THEN Skip(j)
           ELSE IF "organism_grouping_key" \notin DOMAIN sample_data
             THEN Skip(j)
           ELSE LET found == {o \in DOMAIN organism :
                                organism[o].organism_grouping_key
                                   = sample_data.organism_grouping_key}
                IN  IF found = {}
                      THEN Skip(j)
                      ELSE Proceed(j, CHOOSE o \in found : TRUE)

\* the try block with a commit after db.add(sample): when the rest fails, the
\* sample stays
bulk_import_samples_commit_in_two(j, db_ok) ==
    /\ AtRow(j, "sample", "commit")
    /\ UNCHANGED <<organism, experiment, read, fetched, history, response, auth>>
    /\ LET bpa_sample_id == job[j].data[job[j].idx][1]
           sample_data == job[j].data[job[j].idx][2]
           organism_id == job[j].parent
           duplicate == \E s \in DOMAIN sample : sample[s].bpa_sample_id = bpa_sample_id
       IN  IF /\ ~duplicate
              /\ FkOk(organism_id, organism, TRUE)
              /\ SampleIds \ DOMAIN sample # {}
             THEN LET sample_id == FreshId(SampleIds, sample) IN
                  /\ sample' = Insert(sample, sample_id,
                                      [organism_id |-> organism_id,
                                       bpa_sample_id |-> bpa_sample_id,
                                       sample_accession |-> NULL])
                  /\ IF db_ok
                       THEN /\ staged' = Append(staged,
                                      [kind            |-> "sample",
                                       organism_id     |-> organism_id,
                                       sample_id       |-> sample_id,
                                       experiment_id   |-> NULL,
                                       status          |-> StatusColumnDefault,
                                       submission_json |-> MapJson(sample_mapping, sample_data),
                                       submitted_at    |-> NULL])
                            /\ Created(j)
                       ELSE /\ UNCHANGED staged
                            /\ RolledBack(j)
             ELSE /\ UNCHANGED <<sample, staged>>
                  /\ RolledBack(j)

\* the try block against a sample table whose natural key is not unique
bulk_import_samples_commit_not_unique(j, db_ok) ==
    /\ AtRow(j, "sample", "commit")
    /\ UNCHANGED <<organism, experiment, read, fetched, history, response, auth>>
    /\ LET bpa_sample_id == job[j].data[job[j].idx][1]
           sample_data == job[j].data[job[j].idx][2]
           organism_id == job[j].parent
       IN  IF /\ db_ok
              /\ FkOk(organism_id, organism, TRUE)
              /\ SampleIds \ DOMAIN sample # {}
             THEN LET sample_id == FreshId(SampleIds, sample) IN
                  /\ sample' = Insert(sample, sample_id,
                                      [organism_id |-> organism_id,
                                       bpa_sample_id |-> bpa_sample_id,
                                       sample_accession |-> NULL])
                  /\ staged' = Append(staged,
                                      [kind            |-> "sample",
                                       organism_id     |-> organism_id,
                                       sample_id       |-> sample_id,
                                       experiment_id   |-> NULL,
                                       status          |-> StatusColumnDefault,
                                       submission_json |-> MapJson(sample_mapping, sample_data),
                                       submitted_at    |-> NULL])
                  /\ Created(j)
             ELSE /\ UNCHANGED <<sample, staged>>
                  /\ RolledBack(j)

\* the try block: db.add(sample); db.add(sample_submitted); db.commit()
bulk_import_samples_commit(j, db_ok) ==
    /\ AtRow(j, "sample", "commit")
    /\ UNCHANGED <<organism, experiment, read, fetched, history, response, auth>>
    /\ LET bpa_sample_id == job[j].data[job[j].idx][1]
           sample_data == job[j].data[job[j].idx][2]
           organism_id == job[j].parent
           duplicate == \E s \in DOMAIN sample : sample[s].bpa_sample_id = bpa_sample_id
       IN  IF /\ db_ok
              /\ ~duplicate
              /\ FkOk(organism_id, organism, TRUE)
              /\ SampleIds \ DOMAIN sample # {}
             THEN LET sample_id == FreshId(SampleIds, sample) IN
                  /\ sample' = Insert(sample, sample_id,
                                      [organism_id |-> organism_id,
                                       bpa_sample_id |-> bpa_sample_id,
                                       sample_accession |-> NULL])
                  /\ staged' = Append(staged,
                                      [kind            |-> "sample",
                                       organism_id     |-> organism_id,
                                       sample_id       |-> sample_id,
                                       experiment_id   |-> NULL,
                                       status          |-> StatusColumnDefault,
                                       submission_json |-> MapJson(sample_mapping, sample_data),
                                       submitted_at    |-> NULL])
                  /\ Created(j)
             ELSE /\ UNCHANGED <<sample, staged>>
                  /\ RolledBack(j)

-----------------------------------------------------------------------------
(* Bulk import: experiments *)

\* POST /experiments/bulk-import
bulk_import_experiments(j, u, data) ==
    bulk_import_begin("experiment", "bulk_import_experiments", j, u, data)

\* one pass of the loop up to the try block
bulk_import_experiments_check(j) ==
    /\ AtRow(j, "experiment", "check")
    /\ UNCHANGED <<store, staged, fetched, history, response, auth>>
    /\ LET package_id == job[j].data[job[j].idx][1]
           experiment_data == job[j].data[job[j].idx][2]
           bpa_sample_id == Get(experiment_data, "bpa_sample_id")
           found == {s \in DOMAIN sample : sample[s].bpa_sample_id = bpa_sample_id}
       IN  IF \E e \in DOMAIN experiment : experiment[e].bpa_package_id = package_id
             THEN SkipFor(j, "existing_experiment")
           ELSE IF ~Truthy(bpa_sample_id)
             THEN SkipFor(j, "missing_bpa_sample_id")
           ELSE IF found = {}
             THEN SkipFor(j, "missing_sample")
           ELSE IF ~Truthy(Get(experiment_data, "bpa_library_id"))
             THEN SkipFor(j, "missing_required_fields")
           ELSE Proceed(j, CHOOSE s \in found : TRUE)

\* the runs of a payload: experiment_data["runs"] when it is there
Runs(experiment_data) ==
    IF "runs" \in DOMAIN experiment_data THEN experiment_data.runs ELSE << >>

\* db.add(read) for each run of the payload, in order
RECURSIVE AddReads(_, _, _)
AddReads(table, runs, experiment_id) ==
    IF runs = << >> \/ ReadIds \ DOMAIN table = {}
      THEN table
      ELSE AddReads(Insert(table, FreshId(ReadIds, table),
                           [experiment_id   |-> experiment_id,
                            bpa_dataset_id  |-> Get(runs[1], "bpa_dataset_id"),
                            bpa_resource_id |-> Get(runs[1], "bpa_resource_id"),
                            status          |-> "draft",
                            submission_json |-> MapJson(run_mapping, runs[1])]),
                    Tail(runs), experiment_id)

\* the try block: db.add(experiment); db.add(experiment_submitted); db.add(read)
\* for each run; db.commit(); read.bpa_dataset_id and read.bpa_resource_id
\* are NOT NULL
bulk_import_experiments_commit(j, db_ok) ==
    /\ AtRow(j, "experiment", "commit")
    /\ UNCHANGED <<organism, sample, fetched, history, response, auth>>
    /\ LET package_id == job[j].data[job[j].idx][1]
           experiment_data == job[j].data[job[j].idx][2]
           sample_id == job[j].parent
           runs == Runs(experiment_data)
           duplicate == \E e \in DOMAIN experiment :
                           experiment[e].bpa_package_id = package_id
           reads_ok == \A r \in DOMAIN runs :
                          /\ Get(runs[r], "bpa_dataset_id") # NULL
                          /\ Get(runs[r], "bpa_resource_id") # NULL
       IN  IF /\ db_ok
              /\ ~duplicate
              /\ reads_ok
              /\ FkOk(sample_id, sample, FALSE)
              /\ ExperimentIds \ DOMAIN experiment # {}
              /\ Cardinality(ReadIds \ DOMAIN read) >= Len(runs)
             THEN LET experiment_id == FreshId(ExperimentIds, experiment) IN
                  /\ experiment' = Insert(experiment, experiment_id,
                                          [sample_id |-> sample_id,
                                           bpa_package_id |-> package_id])
                  /\ staged' = Append(staged,
                                      [kind            |-> "experiment",
                                       organism_id     |-> NULL,
                                       sample_id       |-> sample_id,
                                       experiment_id   |-> experiment_id,
                                       status          |-> StatusColumnDefault,
                                       submission_json |-> MapJson(experiment_mapping,
                                                                   experiment_data),
                                       submitted_at    |-> NULL])
                  /\ read' = AddReads(read, runs, experiment_id)
                  /\ Created(j)
             ELSE /\ UNCHANGED <<experiment, staged, read>>
                  /\ RolledBack(j)

-----------------------------------------------------------------------------
(* Bulk import: the response *)

\* what the model remembers of a job that returned
Returned(j) ==
    [ kind          |-> job[j].kind,
      data          |-> job[j].data,
      created_count |-> job[j].created_count,
      skipped_count |-> job[j].skipped_count,
      failed        |-> job[j].failed,
      before        |-> job[j].before,
      after         |-> Tables,
      alone         |-> job[j].alone ]

\* the loop is over: return {"created_count": ..., "skipped_count": ...,
\* "message": ...}, and "debug" from bulk_import_experiments only
bulk_import_return(j) ==
    /\ j \in DOMAIN job
    /\ job[j].kind \in {"organism", "sample", "experiment"}
    /\ job[j].idx > Len(job[j].data)
    /\ UNCHANGED <<store, staged, fetched, auth>>
    /\ job' = Remove(job, j)
    /\ history' = IF Len(history) < MaxHistory
                    THEN Append(history, Returned(j))
                    ELSE Append(Tail(history), Returned(j))
    /\ Respond(IF job[j].kind = "organism" THEN "bulk_import_organisms"
               ELSE IF job[j].kind = "sample" THEN "bulk_import_samples"
               ELSE "bulk_import_experiments",
               job[j].caller, 200,
               {IF job[j].kind = "experiment"
                  THEN [created_count |-> job[j].created_count,
                        skipped_count |-> job[j].skipped_count,
                        debug |-> job[j].debug]
                  ELSE [created_count |-> job[j].created_count,
                        skipped_count |-> job[j].skipped_count]})

\* the jobs that run at a time, and who asks for them
BulkJobs == {"j1"}
BulkCallers == {"viewer", "curator"}

NextBulk ==
    \/ \E j \in BulkJobs, u \in BulkCallers, data \in OrganismDatasets :
          bulk_import_organisms(j, u, data)
    \/ \E j \in BulkJobs : bulk_import_organisms_check(j)
    \/ \E j \in BulkJobs, db_ok \in BOOLEAN : bulk_import_organisms_commit(j, db_ok)
    \/ \E j \in BulkJobs, u \in BulkCallers, data \in SampleDatasets :
          bulk_import_samples(j, u, data)
    \/ \E j \in BulkJobs : bulk_import_samples_check(j)
    \/ \E j \in BulkJobs, db_ok \in BOOLEAN : bulk_import_samples_commit(j, db_ok)
    \/ \E j \in BulkJobs, u \in BulkCallers, data \in ExperimentDatasets :
          bulk_import_experiments(j, u, data)
    \/ \E j \in BulkJobs : bulk_import_experiments_check(j)
    \/ \E j \in BulkJobs, db_ok \in BOOLEAN : bulk_import_experiments_commit(j, db_ok)
    \/ \E j \in BulkJobs : bulk_import_return(j)

SpecBulk == Init /\ [][NextBulk]_vars


-----------------------------------------------------------------------------
(* Importing a dataset twice: claim C10 *)

-----------------------------------------------------------------------------
(* A bulk import runs to its summary: claim C11 *)

\* one step of the request j: a pass of the loop or the return statement
BulkStep(j) ==
    \/ bulk_import_organisms_check(j)
    \/ bulk_import_samples_check(j)
    \/ bulk_import_experiments_check(j)
    \/ \E db_ok \in BOOLEAN :
          \/ bulk_import_organisms_commit(j, db_ok)
          \/ bulk_import_samples_commit(j, db_ok)
          \/ bulk_import_experiments_commit(j, db_ok)
    \/ bulk_import_return(j)

\* the callers whose import requests pass the role check and become jobs
ImportCallers == {"curator"}

NextImport ==
    \/ \E j \in BulkJobs, u \in ImportCallers, data \in OrganismDatasets :
          bulk_import_organisms(j, u, data)
    \/ \E j \in BulkJobs : bulk_import_organisms_check(j)
    \/ \E j \in BulkJobs, db_ok \in BOOLEAN : bulk_import_organisms_commit(j, db_ok)
    \/ \E j \in BulkJobs, u \in ImportCallers, data \in SampleDatasets :
          bulk_import_samples(j, u, data)
    \/ \E j \in BulkJobs : bulk_import_samples_check(j)
    \/ \E j \in BulkJobs, db_ok \in BOOLEAN : bulk_import_samples_commit(j, db_ok)
    \/ \E j \in BulkJobs, u \in ImportCallers, data \in ExperimentDatasets :
          bulk_import_experiments(j, u, data)
    \/ \E j \in BulkJobs : bulk_import_experiments_check(j)
    \/ \E j \in BulkJobs, db_ok \in BOOLEAN : bulk_import_experiments_commit(j, db_ok)
    \/ \E j \in BulkJobs : bulk_import_return(j)

SpecImport == Init /\ [][NextImport]_vars

\* a request that reached the handler keeps running: the handler is a plain
\* function whose loop nothing suspends
SpecImportFair == SpecImport /\ \A j \in BulkJobs : WF_vars(BulkStep(j))

-----------------------------------------------------------------------------
(* The standalone import script: import_samples *)

\* import_samples(conn, samples_data, ...) is called by main(): the script has
\* the credentials of the database and no caller identity
import_samples(j, data) ==
    /\ j \notin DOMAIN job
    /\ UNCHANGED <<store, staged, fetched, history, response, auth>>
    /\ job' = [i \in DOMAIN job \cup {j} |->
                 IF i = j THEN NewJob("script_sample", NULL, data)
                          ELSE [job[i] EXCEPT !.alone = FALSE]]

\* one pass of the loop up to the try block: a sample that exists is skipped;
\* when the organism is not named or not found, organism_id stays None and
\* the sample is created all the same
import_samples_check(j) ==
    /\ AtRow(j, "script_sample", "check")
    /\ UNCHANGED <<store, staged, fetched, history, response, auth>>
    /\ LET sample_name == job[j].data[job[j].idx][1]
           sample_data == job[j].data[job[j].idx][2]
           found == IF "organism_grouping_key" \in DOMAIN sample_data
                      THEN {o \in DOMAIN organism :
                              organism[o].organism_grouping_key
                                 = sample_data.organism_grouping_key}
                      ELSE {}
       IN  IF \E s \in DOMAIN sample : sample[s].bpa_sample_id = sample_name
             THEN Skip(j)
           ELSE IF found = {}
             THEN Proceed(j, NULL)
           ELSE Proceed(j, CHOOSE o \in found : TRUE)

\* the try block: INSERT INTO sample; INSERT INTO sample_submitted (without
\* a submission payload); conn.commit(); or conn.rollback()
import_samples_commit(j, db_ok) ==
    /\ AtRow(j, "script_sample", "commit")
    /\ UNCHANGED <<organism, experiment, read, fetched, history, response, auth>>
    /\ LET sample_name == job[j].data[job[j].idx][1]
           organism_id == job[j].parent
           duplicate == \E s \in DOMAIN sample : sample[s].bpa_sample_id = sample_name
       IN  IF /\ db_ok
              /\ ~duplicate
              /\ FkOk(organism_id, organism, TRUE)
              /\ SampleIds \ DOMAIN sample # {}
             THEN LET sample_id == FreshId(SampleIds, sample) IN
                  /\ sample' = Insert(sample, sample_id,
                                      [organism_id |-> organism_id,
                                       bpa_sample_id |-> sample_name,
                                       sample_accession |-> NULL])
                  /\ staged' = Append(staged,
                                      [kind            |-> "sample",
                                       organism_id     |-> organism_id,
                                       sample_id       |-> sample_id,
                                       experiment_id   |-> NULL,
                                       status          |-> StatusColumnDefault,
                                       submission_json |-> JsonNull,
                                       submitted_at    |-> NULL])
                  /\ Created(j)
             ELSE /\ UNCHANGED <<sample, staged>>
                  /\ RolledBack(j)

\* the loop is over: the counts are printed and returned to main()
import_samples_return(j) ==
    /\ j \in DOMAIN job
    /\ job[j].kind = "script_sample"
    /\ job[j].idx > Len(job[j].data)
    /\ UNCHANGED <<store, staged, fetched, response, auth>>
    /\ job' = Remove(job, j)
    /\ history' = IF Len(history) < MaxHistory
                    THEN Append(history, Returned(j))
                    ELSE Append(Tail(history), Returned(j))

\* the samples_data the script is run with: a sample of a stored organism
\* and one of an organism that is not stored
ScriptDatasets == {<<smp_b2, smp_b3>>}

\* the sample and experiment imports of the endpoints and of the script, row
\* by row
NextRows ==
    \/ \E j \in BulkJobs, u \in ImportCallers, data \in SampleDatasets :
          bulk_import_samples(j, u, data)
    \/ \E j \in BulkJobs : bulk_import_samples_check(j)
    \/ \E j \in BulkJobs, db_ok \in BOOLEAN : bulk_import_samples_commit(j, db_ok)
    \/ \E j \in BulkJobs, u \in ImportCallers, data \in ExperimentDatasets :
          bulk_import_experiments(j, u, data)
    \/ \E j \in BulkJobs : bulk_import_experiments_check(j)
    \/ \E j \in BulkJobs, db_ok \in BOOLEAN : bulk_import_experiments_commit(j, db_ok)
    \/ \E j \in BulkJobs : bulk_import_return(j)
    \/ \E j \in BulkJobs, data \in ScriptDatasets : import_samples(j, data)
    \/ \E j \in BulkJobs : import_samples_check(j)
    \/ \E j \in BulkJobs, db_ok \in BOOLEAN : import_samples_commit(j, db_ok)
    \/ \E j \in BulkJobs : import_samples_return(j)

SpecRows == Init /\ [][NextRows]_vars

-----------------------------------------------------------------------------
(* A row that fails to persist: claim C12 *)

\* C12: when persisting a row of a bulk import fails, only that row is rolled
\* back. The step in which a job's row fails leaves every table as it was (the
\* records, staging rows and reads of earlier rows stay, and no record,
\* staging row or read of the failed row is stored), adds one to
\* skipped_count and nothing to created_count, and leaves the job running at
\* the next row; and a job that ran alone has added, when it returns, exactly
\* created_count records and created_count staging rows, and no row that
\* was there before is changed.
C12_FailedRowRolledBackAlone ==
    /\ [][\A j \in DOMAIN job :
             (j \in DOMAIN job' /\ job'[j].failed = job[j].failed + 1)
             => /\ Tables' = Tables
                /\ job'[j].skipped_count = job[j].skipped_count + 1
                /\ job'[j].created_count = job[j].created_count
                /\ job'[j].idx = job[j].idx + 1
                /\ job'[j].phase = "check"]_vars
    /\ [](\A i \in 1..Len(history) :
            LET h == history[i]
                own == IF h.kind = "organism" THEN 1
                       ELSE IF h.kind = "experiment" THEN 3 ELSE 2
            IN
            h.alone =>
              /\ Cardinality(DOMAIN h.after[own] \ DOMAIN h.before[own])
                    = h.created_count
              /\ Len(h.after[5]) = Len(h.before[5]) + h.created_count
              /\ SubSeq(h.after[5], 1, Len(h.before[5])) = h.before[5]
              /\ \A t \in 1..4 : \A id \in DOMAIN h.before[t] :
                    id \in DOMAIN h.after[t] /\ h.after[t][id] = h.before[t][id])

\* a job in which one row failed to persist and another row was created
\* with its staging row is still running
C12_Witness ==
    \E j \in DOMAIN job :
        /\ job[j].failed > 0
        /\ job[j].created_count > 0
        /\ Tables # job[j].before
        /\ staged # << >>

-----------------------------------------------------------------------------
(* A row whose parent is not stored: claim C13 *)

\* C13: a bulk import row whose parent is not found by natural key is
\* skipped. No sample is stored without a stored organism and no experiment
\* without a stored sample; and the step that looks up the parent of a row
\* and finds none counts a skip, leaves the tables alone and moves to the
\* next row.
C13_MissingParentRowSkipped ==
    /\ [](\A s \in DOMAIN sample : sample[s].organism_id \in DOMAIN organism)
    /\ [](\A e \in DOMAIN experiment : experiment[e].sample_id \in DOMAIN sample)
    /\ [][\A j \in DOMAIN job :
             (/\ j \in DOMAIN job'
              /\ job[j].phase = "check"
              /\ job'[j] # job[j]
              /\ LET row == job[j].data[job[j].idx] IN
                 \/ /\ job[j].kind \in {"sample", "script_sample"}
                    /\ ~\E o \in DOMAIN organism :
                          organism[o].organism_grouping_key
                             = Get(row[2], "organism_grouping_key")
                 \/ /\ job[j].kind = "experiment"
                    /\ ~\E s \in DOMAIN sample :
                          sample[s].bpa_sample_id = Get(row[2], "bpa_sample_id"))
             => /\ job'[j].skipped_count = job[j].skipped_count + 1
                /\ job'[j].idx = job[j].idx + 1
                /\ Tables' = Tables]_vars

-----------------------------------------------------------------------------
(* Two imports at once: claim C14 *)

\* two requests in flight at a time
RaceJobs == {"j1", "j2"}

\* a second sample of the stored organism
smp_b5 == <<"b5", [organism_grouping_key |-> "k1", sample_name |-> "x5"]>>

\* the request body both requests send: they share every natural key
RaceOrganismDatasets == {<<org_k1, org_k2>>}
RaceSampleDatasets == {<<smp_b2, smp_b5>>}

\* the organism and sample imports of two requests, interleaved row by row
\* between the lookups of a row and its commit; the database refuses a
\* commit only for a constraint of the tables
NextRace ==
    \/ \E j \in RaceJobs, u \in ImportCallers, data \in RaceOrganismDatasets :
          bulk_import_organisms(j, u, data)
    \/ \E j \in RaceJobs : bulk_import_organisms_check(j)
    \/ \E j \in RaceJobs : bulk_import_organisms_commit(j, TRUE)
    \/ \E j \in RaceJobs, u \in ImportCallers, data \in RaceSampleDatasets :
          bulk_import_samples(j, u, data)
    \/ \E j \in RaceJobs : bulk_import_samples_check(j)
    \/ \E j \in RaceJobs : bulk_import_samples_commit(j, TRUE)
    \/ \E j \in RaceJobs : bulk_import_return(j)

SpecRace == Init /\ [][NextRace]_vars

\* C14: when two bulk imports whose inputs share a natural key run at once
\* and both pass the already-exists check before either inserts, one record
\* with that key exists at the end, the loser's duplicate-key failure is
\* caught and counted as a skip of that row, and neither job aborts or loses
\* its other rows: no two organisms share a grouping key and no two samples
\* an external sample id; the commit of a row whose key was inserted in the
\* meantime changes no table, counts one skip and leaves the job at its next
\* row; and every job returns a summary that counts each of its rows once,
\* with a record stored for every key of its input.
C14_RaceLoserSkipsItsRow ==
    /\ [](\A a, b \in DOMAIN organism :
            organism[a].organism_grouping_key = organism[b].organism_grouping_key
               => a = b)
    /\ [](\A a, b \in DOMAIN sample :
            sample[a].bpa_sample_id = sample[b].bpa_sample_id => a = b)
    /\ [][\A j \in DOMAIN job :
             (/\ job[j].phase = "commit"
              /\ j \in DOMAIN job' /\ job'[j] # job[j]
              /\ LET key == job[j].data[job[j].idx][1] IN
                 \/ /\ job[j].kind = "organism"
                    /\ \E o \in DOMAIN organism :
                          organism[o].organism_grouping_key = key
                 \/ /\ job[j].kind = "sample"
                    /\ \E s \in DOMAIN sample : sample[s].bpa_sample_id = key)
             => /\ Tables' = Tables
                /\ job'[j].skipped_count = job[j].skipped_count + 1
                /\ job'[j].created_count = job[j].created_count
                /\ job'[j].idx = job[j].idx + 1
                /\ job'[j].phase = "check"]_vars
    /\ [](\A i \in 1..Len(history) :
            LET h == history[i] IN
            /\ h.created_count + h.skipped_count = Len(h.data)
            /\ \A r \in 1..Len(h.data) :
                  IF h.kind = "organism"
                    THEN \E o \in DOMAIN h.after[1] :
                            h.after[1][o].organism_grouping_key = h.data[r][1]
                    ELSE \E s \in DOMAIN h.after[2] :
                            h.after[2][s].bpa_sample_id = h.data[r][1])

\* a job returned after it lost the race for a key to a job that ran at the
\* same time, and created another row of its input
C14_Witness ==
    \E i \in 1..Len(history) :
        /\ ~history[i].alone
        /\ history[i].failed = 1
        /\ history[i].created_count = 1
        /\ history[i].kind = "sample"

-----------------------------------------------------------------------------
(* The payload derived for the registry: claim C15 *)

\* C15: the submission_json of a bulk-imported row has one entry for each
\* pair (registry key, payload key) of the mapping whose payload key is in
\* the row's payload, with the payload's value unchanged; a pair whose
\* payload key is absent gives no entry, and a payload key of no pair is not
\* copied. This holds of the staging row every created sample and experiment
\* gets, and of every read created from a run of an experiment.
C15_SubmissionJsonIsMappedPayload ==
    [][\A j \in DOMAIN job :
          (/\ j \in DOMAIN job'
           /\ job'[j].created_count = job[j].created_count + 1
           /\ job[j].kind \in {"sample", "experiment"})
          => LET data == job[j].data[job[j].idx][2]
                 mapping == IF job[j].kind = "sample" THEN sample_mapping
                                                     ELSE experiment_mapping
                 json == staged'[Len(staged')].submission_json
             IN  /\ Len(staged') = Len(staged) + 1
                 /\ json # JsonNull
                 /\ \A k \in DOMAIN mapping :
                       k \in DOMAIN json[1] <=> mapping[k] \in DOMAIN data
                 /\ DOMAIN json[1] \subseteq DOMAIN mapping
                 /\ \A k \in DOMAIN json[1] : json[1][k] = data[mapping[k]]
                 /\ job[j].kind = "experiment" =>
                       /\ Cardinality(DOMAIN read' \ DOMAIN read) = Len(Runs(data))
                       /\ \A r \in DOMAIN read' \ DOMAIN read :
                             \E i \in DOMAIN Runs(data) :
                                LET run == Runs(data)[i]
                                    rjson == read'[r].submission_json
                                IN  /\ rjson # JsonNull
                                    /\ \A k \in DOMAIN run_mapping :
                                          k \in DOMAIN rjson[1]
                                             <=> run_mapping[k] \in DOMAIN run
                                    /\ DOMAIN rjson[1] \subseteq DOMAIN run_mapping
                                    /\ \A k \in DOMAIN rjson[1] :
                                          rjson[1][k] = run[run_mapping[k]]]_vars

\* a sample was created from a payload that has one mapped key and lacks the
\* other, and has keys of no pair; an experiment was created with a read
C15_Witness ==
    /\ \E i \in 1..Len(staged) :
          /\ staged[i].kind = "sample"
          /\ staged[i].submission_json = Json([title |-> "x2"])
    /\ \E r \in DOMAIN read : read[r].submission_json = Json([file_name |-> "f1.gz"])

-----------------------------------------------------------------------------
(* The breakdown of skip reasons: claim C16 *)

\* C16: every bulk import returns, with created_count and skipped_count, a
\* debug breakdown of skip reasons, and every row skipped by a check of the
\* loop (not by a failure to persist) adds one to exactly one reason counter:
\* the summary of every bulk import carries "debug", and the reason counters
\* sum to skipped_count minus the rows that failed to persist.
C16_DebugBreakdownReturned ==
    /\ []((response.code = 200 /\ history # << >>)
           => \A b \in response.body :
                 /\ "debug" \in DOMAIN b
                 /\ b.debug.missing_bpa_sample_id + b.debug.missing_sample
                      + b.debug.existing_experiment + b.debug.missing_required_fields
                    = history[Len(history)].skipped_count
                         - history[Len(history)].failed)
    /\ [](\A j \in DOMAIN job :
            job[j].kind = "experiment"
            => job[j].debug.missing_bpa_sample_id + job[j].debug.missing_sample
                 + job[j].debug.existing_experiment
                 + job[j].debug.missing_required_fields
               = job[j].skipped_count - job[j].failed)

-----------------------------------------------------------------------------
(* The XML codec: documents and payloads *)

\* an ElementTree element: its tag, its attributes as pairs <<name, value>>,
\* its text (NULL when none was set) and its children in document order.
\* ET.tostring and toprettyxml write the tree out as it stands, so the
\* generators are compared on the tree they build.
Element(tag, attrs, text, children) ==
    [tag |-> tag, attrs |-> attrs, text |-> text, children |-> children]

\* ET.SubElement(parent, tag) followed by .text = text
TextElement(tag, text) == Element(tag, {}, text, << >>)

\* `key in json` for a submission_json object: its items <<key, value>> in
\* insertion order, keys distinct; a value is a string, NULL for JSON null,
\* or a nested list or object
In(key, json) == \E i \in DOMAIN json : json[i][1] = key

\* json.get(key, default); json[key] is GetOr(json, key, NULL) for a key
\* that is there
GetOr(json, key, default) ==
    IF In(key, json) THEN json[CHOOSE i \in DOMAIN json : json[i][1] = key][2] ELSE default

\* the attributes of SAMPLE, EXPERIMENT and RUN: alias, center_name,
\* broker_name, and accession `if accession`
RecordAttrs(alias, center_name, broker_name, accession) ==
    {<<"alias", alias>>, <<"center_name", center_name>>, <<"broker_name", broker_name>>}
       \cup (IF accession \notin {NULL, ""} THEN {<<"accession", accession>>} ELSE {})

\* IDENTIFIERS: PRIMARY_ID `if accession`, then SUBMITTER_ID
Identifiers(alias, center_name, accession) ==
    Element("IDENTIFIERS", {}, NULL,
            (IF accession \notin {NULL, ""}
               THEN <<TextElement("PRIMARY_ID", accession)>> ELSE << >>)
               \o <<Element("SUBMITTER_ID", {<<"namespace", center_name>>}, alias, << >>)>>)

-----------------------------------------------------------------------------
(* The XML codec: SAMPLE documents *)

\* SAMPLE_ATTRIBUTE with TAG and VALUE, and UNITS for the two geographic keys
SampleAttribute(key, value) ==
    Element("SAMPLE_ATTRIBUTE", {}, NULL,
            <<TextElement("TAG", key), TextElement("VALUE", value)>>
               \o (IF key \in {"geographic location (latitude)",
                               "geographic location (longitude)"}
                     THEN <<TextElement("UNITS", "DD")>> ELSE << >>))

\* for key, value in submission_json.items(): one SAMPLE_ATTRIBUTE for every
\* key outside skip_keys whose value is not None; str(value) of a string is
\* the string
RECURSIVE SampleAttributes(_)
SampleAttributes(items) ==
    LET skip_keys == {"title", "taxon_id", "scientific_name", "common_name", "description"}
    IN  IF items = << >> THEN << >>
        ELSE IF items[1][1] \in skip_keys \/ items[1][2] = NULL
               THEN SampleAttributes(Tail(items))
               ELSE <<SampleAttribute(items[1][1], items[1][2])>>
                       \o SampleAttributes(Tail(items))

\* an attribute appended whether or not the tag is there already
IfNotFound_always(attributes, tag, value) ==
    Append(attributes, SampleAttribute(tag, value))

\* found = any(attr.find("TAG").text == tag for attr in ...);
\* if not found: append SAMPLE_ATTRIBUTE(tag, value)
IfNotFound(attributes, tag, value) ==
    IF \E i \in DOMAIN attributes : attributes[i].children[1].text = tag
      THEN attributes
      ELSE Append(attributes, SampleAttribute(tag, value))

\* the children of SAMPLE up to SAMPLE_ATTRIBUTES; name is the taxon id, the
\* scientific name and the common name
SampleHead(submission_json, alias, center_name, accession, name) ==
    <<Identifiers(alias, center_name, accession),
      TextElement("TITLE", GetOr(submission_json, "title", alias \o " sample")),
      Element("SAMPLE_NAME", {}, NULL,
              <<TextElement("TAXON_ID", name[1]),
                TextElement("SCIENTIFIC_NAME", name[2]),
                TextElement("COMMON_NAME", name[3])>>)>>
       \o (IF In("description", submission_json)
             THEN <<TextElement("DESCRIPTION", GetOr(submission_json, "description", NULL))>>
             ELSE << >>)

\* generate_sample_xml(organism, submission_json, alias, center_name,
\* broker_name, accession): the taxonomy comes from the organism, whose
\* tax_id is held as its decimal string
generate_sample_xml(organism_row, submission_json, alias, center_name, broker_name, accession) ==
    Element("SAMPLE_SET", {}, NULL,
      <<Element("SAMPLE", RecordAttrs(alias, center_name, broker_name, accession), NULL,
          SampleHead(submission_json, alias, center_name, accession,
                     <<organism_row.tax_id, organism_row.scientific_name,
                       organism_row.common_name>>)
          \o <<Element("SAMPLE_ATTRIBUTES", {}, NULL,
                  IfNotFound(
                    IfNotFound(
                      IfNotFound(SampleAttributes(submission_json),
                                 "ENA-CHECKLIST", "ERC000053"),
                      "collecting institution", "not provided"),
                    "project name", "atol-genome-engine"))>>)>>)

\* generate_samples_xml(samples_data): for every entry the taxonomy comes
\* from the payload, with defaults, and only ENA-CHECKLIST is added; the
\* entries leave center_name and broker_name to their default
generate_samples_xml(samples_data) ==
    Element("SAMPLE_SET", {}, NULL,
      [i \in DOMAIN samples_data |->
         LET submission_json == samples_data[i].submission_json
             alias == samples_data[i].alias
             accession == samples_data[i].accession
         IN  Element("SAMPLE", RecordAttrs(alias, "AToL", "AToL", accession), NULL,
               SampleHead(submission_json, alias, "AToL", accession,
                          <<GetOr(submission_json, "taxon_id", "12908"),
                            GetOr(submission_json, "scientific_name", "unidentified organism"),
                            GetOr(submission_json, "common_name", "")>>)
               \o <<Element("SAMPLE_ATTRIBUTES", {}, NULL,
                       IfNotFound(SampleAttributes(submission_json),
                                  "ENA-CHECKLIST", "ERC000053"))>>)])

-----------------------------------------------------------------------------
(* The XML codec: EXPERIMENT documents *)

\* for key, value in submission_json["attributes"].items(): one
\* EXPERIMENT_ATTRIBUTE for every value that is not None
RECURSIVE ExperimentAttributeList(_)
ExperimentAttributeList(items) ==
    IF items = << >> THEN << >>
    ELSE IF items[1][2] = NULL
           THEN ExperimentAttributeList(Tail(items))
           ELSE <<Element("EXPERIMENT_ATTRIBUTE", {}, NULL,
                          <<TextElement("TAG", items[1][1]),
                            TextElement("VALUE", items[1][2])>>)>>
                   \o ExperimentAttributeList(Tail(items))

\* the EXPERIMENT element both generators build; they differ in the defaults
\* of design_description and library_layout
ExperimentElement(submission_json, alias, center_name, broker_name, accession, description_default, layout_default) ==
    LET \* STUDY_REF: accession when the payload has the key study_accession,
        \* otherwise refname, with AToL_study for a payload without
        \* study_refname
        study_ref ==
            Element("STUDY_REF",
                    IF In("study_accession", submission_json)
                      THEN {<<"accession", GetOr(submission_json, "study_accession", NULL)>>}
                      ELSE {<<"refname", GetOr(submission_json, "study_refname", "AToL_study")>>},
                    NULL, << >>)
        \* SAMPLE_DESCRIPTOR: accession when the payload has the key
        \* sample_accession, else refname when it has sample_refname, else
        \* neither
        sample_descriptor ==
            Element("SAMPLE_DESCRIPTOR",
                    IF In("sample_accession", submission_json)
                      THEN {<<"accession", GetOr(submission_json, "sample_accession", NULL)>>}
                      ELSE IF In("sample_refname", submission_json)
                             THEN {<<"refname", GetOr(submission_json, "sample_refname", NULL)>>}
                             ELSE {},
                    NULL, << >>)
        \* LIBRARY_LAYOUT: PAIRED, with NOMINAL_LENGTH when the payload has
        \* nominal_length, for the layout PAIRED; SINGLE for any other. A
        \* length is held as its decimal string; str(None) is "None".
        library_layout ==
            Element("LIBRARY_LAYOUT", {}, NULL,
                    IF GetOr(submission_json, "library_layout", layout_default) = "PAIRED"
                      THEN <<Element("PAIRED",
                                     IF In("nominal_length", submission_json)
                                       THEN {<<"NOMINAL_LENGTH",
                                               IF GetOr(submission_json, "nominal_length",
                                                        NULL) = NULL
                                                 THEN "None"
                                                 ELSE GetOr(submission_json, "nominal_length",
                                                            NULL)>>}
                                       ELSE {},
                                     NULL, << >>)>>
                      ELSE <<TextElement("SINGLE", NULL)>>)
        library_descriptor ==
            Element("LIBRARY_DESCRIPTOR", {}, NULL,
              <<TextElement("LIBRARY_NAME", GetOr(submission_json, "library_name", NULL)),
                TextElement("LIBRARY_STRATEGY", GetOr(submission_json, "library_strategy", NULL)),
                TextElement("LIBRARY_SOURCE", GetOr(submission_json, "library_source", NULL)),
                TextElement("LIBRARY_SELECTION", GetOr(submission_json, "library_selection", NULL)),
                TextElement("LIBRARY_CONSTRUCTION_PROTOCOL",
                            GetOr(submission_json, "library_construction_protocol", "unspecified")),
                TextElement("INSERT_SIZE", GetOr(submission_json, "insert_size", NULL)),
                library_layout>>)
        \* PLATFORM: one child named after the payload's platform, holding
        \* INSTRUMENT_MODEL. For a payload without platform the child's tag is
        \* None, and ET.tostring writes the children of such an element in
        \* its place.
        instrument_model ==
            TextElement("INSTRUMENT_MODEL", GetOr(submission_json, "instrument_model", NULL))
        platform_type == GetOr(submission_json, "platform", NULL)
        platform ==
            Element("PLATFORM", {}, NULL,
                    IF platform_type = NULL
                      THEN <<instrument_model>>
                      ELSE <<Element(platform_type, {}, NULL, <<instrument_model>>)>>)
        \* EXPERIMENT_ATTRIBUTES, for a payload with a non-empty attributes map
        experiment_attributes ==
            IF In("attributes", submission_json)
               /\ GetOr(submission_json, "attributes", << >>) # << >>
              THEN <<Element("EXPERIMENT_ATTRIBUTES", {}, NULL,
                       ExperimentAttributeList(GetOr(submission_json, "attributes", << >>)))>>
              ELSE << >>
    IN  Element("EXPERIMENT", RecordAttrs(alias, center_name, broker_name, accession), NULL,
          <<Identifiers(alias, center_name, accession),
            TextElement("TITLE", GetOr(submission_json, "title", alias \o " experiment")),
            study_ref,
            Element("DESIGN", {}, NULL,
                    <<TextElement("DESIGN_DESCRIPTION",
                                  GetOr(submission_json, "design_description",
                                        description_default)),
                      sample_descriptor,
                      library_descriptor>>),
            platform>>
          \o experiment_attributes)

\* generate_experiment_xml(submission_json, alias, center_name, broker_name,
\* accession)
generate_experiment_xml(submission_json, alias, center_name, broker_name, accession) ==
    Element("EXPERIMENT_SET", {}, NULL,
            <<ExperimentElement(submission_json, alias, center_name, broker_name,
                                accession, "", "SINGLE")>>)

\* generate_experiments_xml(experiments_data); the entries leave center_name
\* and broker_name to their default
generate_experiments_xml(experiments_data) ==
    Element("EXPERIMENT_SET", {}, NULL,
            [i \in DOMAIN experiments_data |->
                ExperimentElement(experiments_data[i].submission_json,
                                  experiments_data[i].alias, "AToL", "AToL",
                                  experiments_data[i].accession, NULL, NULL)])

-----------------------------------------------------------------------------
(* The XML codec: RUN documents *)

\* FILES from the payload's files list: one FILE per entry, with an attribute
\* for each key the entry has; no FILE without a list
FilesOfList(submission_json) ==
    LET files == GetOr(submission_json, "files", << >>)
        Attr(file_data, key, name) ==
            IF In(key, file_data) THEN {<<name, GetOr(file_data, key, NULL)>>} ELSE {}
    IN  IF In("files", submission_json) /\ files # << >>
          THEN [i \in DOMAIN files |->
                  Element("FILE",
                          Attr(files[i], "checksum", "checksum")
                             \cup (IF In("checksum", files[i])
                                     THEN {<<"checksum_method",
                                             GetOr(files[i], "checksum_method", "MD5")>>}
                                     ELSE {})
                             \cup Attr(files[i], "filename", "filename")
                             \cup Attr(files[i], "filetype", "filetype")
                             \cup Attr(files[i], "quality_scoring_system",
                                       "quality_scoring_system"),
                          NULL, << >>)]
          ELSE << >>

\* the RUN element, given its FILE elements
RunElement(submission_json, alias, center_name, broker_name, accession, files) ==
    LET experiment_accession == GetOr(submission_json, "experiment_accession", NULL)
        \* EXPERIMENT_REF: the accession attribute and IDENTIFIERS/PRIMARY_ID
        \* `if experiment_accession`; neither otherwise
        experiment_ref ==
            IF experiment_accession \notin {NULL, ""}
              THEN Element("EXPERIMENT_REF", {<<"accession", experiment_accession>>}, NULL,
                           <<Element("IDENTIFIERS", {}, NULL,
                                     <<TextElement("PRIMARY_ID", experiment_accession)>>)>>)
              ELSE Element("EXPERIMENT_REF", {}, NULL, << >>)
        \* PLATFORM: empty unless the payload holds a platform
        platform_type == GetOr(submission_json, "platform", NULL)
        platform ==
            Element("PLATFORM", {}, NULL,
                    IF platform_type \notin {NULL, ""}
                      THEN <<Element(platform_type, {}, NULL,
                                <<TextElement("INSTRUMENT_MODEL",
                                     GetOr(submission_json, "instrument_model", NULL))>>)>>
                      ELSE << >>)
    IN  Element("RUN", RecordAttrs(alias, center_name, broker_name, accession), NULL,
                <<Identifiers(alias, center_name, accession),
                  experiment_ref,
                  platform,
                  Element("DATA_BLOCK", {}, NULL, <<Element("FILES", {}, NULL, files)>>)>>)

\* generate_run_xml(submission_json, alias, center_name, broker_name,
\* accession), the same in run_xml_functions.py and xml_generator.py
generate_run_xml(submission_json, alias, center_name, broker_name, accession) ==
    Element("RUN_SET", {}, NULL,
            <<RunElement(submission_json, alias, center_name, broker_name, accession,
                         FilesOfList(submission_json))>>)

\* run_xml_functions.generate_runs_xml(runs_data): FILE elements from the
\* files list
run_xml_functions_generate_runs_xml(runs_data) ==
    Element("RUN_SET", {}, NULL,
            [i \in DOMAIN runs_data |->
                RunElement(runs_data[i].submission_json, runs_data[i].alias, "AToL", "AToL",
                           runs_data[i].accession, FilesOfList(runs_data[i].submission_json))])

\* xml_generator.generate_runs_xml(runs_data): one FILE element from the
\* top-level keys file_checksum, file_name and file_format of the payload
generate_runs_xml(runs_data) ==
    Element("RUN_SET", {}, NULL,
      [i \in DOMAIN runs_data |->
         LET submission_json == runs_data[i].submission_json
             Attr(key, name) ==
                 IF In(key, submission_json)
                   THEN {<<name, GetOr(submission_json, key, NULL)>>} ELSE {}
         IN  RunElement(submission_json, runs_data[i].alias, "AToL", "AToL",
                        runs_data[i].accession,
                        <<Element("FILE",
                                  Attr("file_checksum", "checksum")
                                     \cup (IF In("file_checksum", submission_json)
                                             THEN {<<"checksum_method", "MD5">>} ELSE {})
                                     \cup Attr("file_name", "filename")
                                     \cup Attr("file_format", "filetype"),
                                  NULL, << >>)>>)])

\* ET.tostring(root, 'utf-8') raises TypeError for an attribute whose value
\* is None; a text of None is written as no text
RECURSIVE Serializable(_)
Serializable(element) ==
    /\ \A a \in element.attrs : a[2] # NULL
    /\ \A i \in DOMAIN element.children : Serializable(element.children[i])

-----------------------------------------------------------------------------
(* The XML codec: the calls of the generators *)

\* the keys one payload of the model may hold
MaxKeys == 2

\* the payloads of at most n items over the given keys and values, keys distinct
RECURSIVE Payloads(_, _, _)
Payloads(keys, values, n) ==
    IF n = 0 THEN {<< >>}
    ELSE LET shorter == Payloads(keys, values, n - 1)
         IN  shorter \cup
             UNION {{Append(json, <<k, v>>) : k \in {x \in keys : ~In(x, json)}, v \in values} :
                    json \in {j \in shorter : Len(j) = n - 1}}

\* the arguments of generate_sample_xml, and the entries of samples_data:
\* payloads of a title and attributes, and one with a taxonomy of its own
\* and a null description
SampleInputs ==
    [submission_json : Payloads({"title", "ENA-CHECKLIST", "geographic location (latitude)"},
                                {"v", NULL}, MaxKeys)
                          \cup {<<<<"taxon_id", "t9">>, <<"scientific_name", "n9">>,
                                  <<"description", NULL>>>>},
     alias : {"a1"}, accession : {NULL, "ERS1"}]

\* the arguments of generate_experiment_xml, and the entries of
\* experiments_data: payloads of references, payloads of a library layout,
\* one with the library, the platform and attributes, and one whose study
\* accession is null
ExperimentInputs ==
    [submission_json :
        Payloads({"study_accession", "study_refname", "sample_accession", "sample_refname"},
                 {"v"}, MaxKeys)
        \cup Payloads({"library_layout", "nominal_length"}, {"PAIRED", "SINGLE", NULL}, 2)
        \cup {<<<<"study_refname", "st1">>, <<"sample_refname", "sa1">>,
                <<"library_layout", "PAIRED">>, <<"nominal_length", "300">>,
                <<"platform", "ILLUMINA">>, <<"instrument_model", "m1">>,
                <<"attributes", <<<<"k", "v">>, <<"n", NULL>>>>>>>>,
              <<<<"study_accession", NULL>>, <<"sample_accession", "v">>>>},
     alias : {"a1"}, accession : {NULL}]

\* the arguments of generate_run_xml, and the entries of runs_data: payloads
\* of references and a file name, and one with a platform and a files list
RunInputs ==
    [submission_json :
        Payloads({"experiment_accession", "experiment_alias", "file_name"},
                 {"v", NULL}, MaxKeys)
        \cup {<<<<"experiment_accession", "ERX1">>, <<"platform", "ILLUMINA">>,
                <<"files", << <<<<"checksum", "c1">>, <<"filename", "f1">>>>,
                              <<<<"filetype", "fastq">>>> >> >>>>},
     alias : {"a1"}, accession : {NULL}]

\* the lists of one entry, and of one entry followed by one whose payload is
\* empty
Lists(entries) ==
    {<<d>> : d \in entries}
       \cup {<<d, e>> : d \in entries, e \in {x \in entries : x.submission_json = << >>}}

\* a call of a generator: ET.tostring writes the tree out and the document
\* is returned, or it raises TypeError and nothing is returned. The response
\* holds what the generator was given and, when it returned, the document.
Call(op, args, document) ==
    /\ IF Serializable(document)
         THEN Respond(op, "viewer", 200, {[args |-> args, document |-> document]})
         ELSE Respond(op, "viewer", 500, {[args |-> args]})
    /\ UNCHANGED <<organism, sample, experiment, read, staged, fetched, job, history, auth>>

NextXml ==
    \/ \E inp \in SampleInputs :
          Call("generate_sample_xml", inp,
               generate_sample_xml(
                   [tax_id |-> "t1", scientific_name |-> "n1", common_name |-> NULL],
                   inp.submission_json, inp.alias, "AToL", "AToL", inp.accession))
    \/ \E samples_data \in Lists(SampleInputs) :
          Call("generate_samples_xml", samples_data, generate_samples_xml(samples_data))
    \/ \E inp \in ExperimentInputs :
          Call("generate_experiment_xml", inp,
               generate_experiment_xml(inp.submission_json, inp.alias, "AToL", "AToL",
                                       inp.accession))
    \/ \E experiments_data \in Lists(ExperimentInputs) :
          Call("generate_experiments_xml", experiments_data,
               generate_experiments_xml(experiments_data))
    \/ \E inp \in RunInputs :
          Call("generate_run_xml", inp,
               generate_run_xml(inp.submission_json, inp.alias, "AToL", "AToL", inp.accession))
    \/ \E runs_data \in Lists(RunInputs) :
          Call("run_xml_functions.generate_runs_xml", runs_data,
               run_xml_functions_generate_runs_xml(runs_data))
    \/ \E runs_data \in Lists(RunInputs) :
          Call("generate_runs_xml", runs_data, generate_runs_xml(runs_data))

SpecXml == Init /\ [][NextXml]_vars

-----------------------------------------------------------------------------
(* The ENA-CHECKLIST attribute: claim C20 *)

\* C20: every SAMPLE element that generate_sample_xml or generate_samples_xml
\* returns holds exactly one SAMPLE_ATTRIBUTE with TAG ENA-CHECKLIST; its
\* VALUE is the payload's value when the payload supplies one, and the
\* default ERC000053 when the payload has no ENA-CHECKLIST key (or a null
\* one, which the codec treats as absent).
C20_ExactlyOneChecklistAttribute ==
    LET Values(sample_element) ==
            LET attributes == sample_element.children[Len(sample_element.children)].children
            IN  SelectSeq([i \in DOMAIN attributes |->
                             <<attributes[i].children[1].text, attributes[i].children[2].text>>],
                          LAMBDA tv : tv[1] = "ENA-CHECKLIST")
        ExactlyOne(sample_element, submission_json) ==
            LET supplied == GetOr(submission_json, "ENA-CHECKLIST", NULL)
            IN  Values(sample_element) =
                    <<<<"ENA-CHECKLIST", IF supplied = NULL THEN "ERC000053" ELSE supplied>>>>
    IN  /\ response.op = "generate_sample_xml" /\ response.code = 200 =>
              \A r \in response.body :
                  /\ Len(r.document.children) = 1
                  /\ ExactlyOne(r.document.children[1], r.args.submission_json)
        /\ response.op = "generate_samples_xml" /\ response.code = 200 =>
              \A r \in response.body :
                  /\ Len(r.document.children) = Len(r.args)
                  /\ \A i \in DOMAIN r.args :
                         ExactlyOne(r.document.children[i], r.args[i].submission_json)

\* a SAMPLE document of a payload that supplies ENA-CHECKLIST after another
\* attribute: the payload's value is there, and nothing was added for the tag
C20_Witness ==
    /\ response.op = "generate_sample_xml"
    /\ response.code = 200
    /\ \E r \in response.body :
          LET attributes == r.document.children[1].children[4].children
          IN  /\ r.args.submission_json =
                    <<<<"geographic location (latitude)", "v">>, <<"ENA-CHECKLIST", "v">>>>
              /\ Len(attributes) = 4
              /\ attributes[2].children[1].text = "ENA-CHECKLIST"
              /\ attributes[2].children[2].text = "v"

-----------------------------------------------------------------------------
(* The cross-references of EXPERIMENT and RUN documents: claims C17, C18, C19 *)

\* C17: a run generator given an entry whose payload supplies neither an
\* experiment accession nor an experiment alias raises and returns no
\* document; and no RUN of a returned document has an EXPERIMENT_REF without
\* an accession or refname attribute.
C17_UnresolvableExperimentRefFails ==
    LET Entries(r) == IF response.op = "generate_run_xml" THEN <<r.args>> ELSE r.args
        Supplied(json, key) == GetOr(json, key, NULL) \notin {NULL, ""}
        Names(element) == {a[1] : a \in element.attrs}
    IN  response.op \in {"generate_run_xml", "run_xml_functions.generate_runs_xml",
                         "generate_runs_xml"} =>
          \A r \in response.body :
              /\ (\E i \in DOMAIN Entries(r) :
                     /\ ~Supplied(Entries(r)[i].submission_json, "experiment_accession")
                     /\ ~Supplied(Entries(r)[i].submission_json, "experiment_alias"))
                    => response.code # 200
              /\ response.code = 200 =>
                    \A i \in DOMAIN r.document.children :
                        Names(r.document.children[i].children[2])
                           \cap {"accession", "refname"} # {}

\* C18: an experiment generator given an entry whose payload has neither a
\* study accession nor a study refname raises and returns no document; and
\* no EXPERIMENT of a returned document has a SAMPLE_DESCRIPTOR without an
\* accession or refname attribute.
C18_UnresolvableStudyRefFails ==
    LET Entries(r) == IF response.op = "generate_experiment_xml" THEN <<r.args>> ELSE r.args
        Names(element) == {a[1] : a \in element.attrs}
    IN  response.op \in {"generate_experiment_xml", "generate_experiments_xml"} =>
          \A r \in response.body :
              /\ (\E i \in DOMAIN Entries(r) :
                     /\ ~In("study_accession", Entries(r)[i].submission_json)
                     /\ ~In("study_refname", Entries(r)[i].submission_json)
                     /\ ~In("study_alias", Entries(r)[i].submission_json))
                    => response.code # 200
              /\ response.code = 200 =>
                    \A i \in DOMAIN r.document.children :
                        Names(r.document.children[i].children[4].children[2])
                           \cap {"accession", "refname"} # {}

\* C19: in every returned document each of STUDY_REF, SAMPLE_DESCRIPTOR and
\* EXPERIMENT_REF has the accession attribute alone when the payload
\* supplies the accession, the refname attribute alone, holding the alias,
\* when it supplies only the alias, and never both.
C19_ReferenceIsAccessionOrRefname ==
    LET Entries(r) ==
            IF response.op \in {"generate_experiment_xml", "generate_run_xml"}
              THEN <<r.args>> ELSE r.args
        Supplied(json, key) == GetOr(json, key, NULL) \notin {NULL, ""}
        Resolved(element, json, accession_key, alias_key) ==
            /\ Supplied(json, accession_key) =>
                  element.attrs = {<<"accession", GetOr(json, accession_key, NULL)>>}
            /\ ~Supplied(json, accession_key) /\ Supplied(json, alias_key) =>
                  element.attrs = {<<"refname", GetOr(json, alias_key, NULL)>>}
            /\ ~({"accession", "refname"} \subseteq {a[1] : a \in element.attrs})
    IN  /\ response.op \in {"generate_experiment_xml", "generate_experiments_xml"}
           /\ response.code = 200 =>
              \A r \in response.body : \A i \in DOMAIN Entries(r) :
                  /\ Resolved(r.document.children[i].children[3],
                              Entries(r)[i].submission_json,
                              "study_accession", "study_refname")
                  /\ Resolved(r.document.children[i].children[4].children[2],
                              Entries(r)[i].submission_json,
                              "sample_accession", "sample_refname")
        /\ response.op \in {"generate_run_xml", "run_xml_functions.generate_runs_xml",
                             "generate_runs_xml"}
           /\ response.code = 200 =>
              \A r \in response.body : \A i \in DOMAIN Entries(r) :
                  Resolved(r.document.children[i].children[2],
                           Entries(r)[i].submission_json,
                           "experiment_accession", "experiment_alias")

-----------------------------------------------------------------------------
(* The three injected attributes: claim C21 *)

\* C21: every SAMPLE element that generate_sample_xml or generate_samples_xml
\* returns holds, for each of the tags ENA-CHECKLIST, project name and
\* collecting institution, exactly one SAMPLE_ATTRIBUTE: with the payload's
\* value when the payload supplies one, with the fixed default otherwise.
C21_ExactlyOneOfEachInjectedTag ==
    LET Entries(r) == IF response.op = "generate_sample_xml" THEN <<r.args>> ELSE r.args
        Injected == {<<"ENA-CHECKLIST", "ERC000053">>,
                     <<"project name", "atol-genome-engine">>,
                     <<"collecting institution", "not provided">>}
        Values(sample_element, tag) ==
            LET attributes == sample_element.children[Len(sample_element.children)].children
            IN  SelectSeq([i \in DOMAIN attributes |->
                             <<attributes[i].children[1].text, attributes[i].children[2].text>>],
                          LAMBDA tv : tv[1] = tag)
    IN  response.op \in {"generate_sample_xml", "generate_samples_xml"}
        /\ response.code = 200 =>
          \A r \in response.body : \A i \in DOMAIN Entries(r) : \A d \in Injected :
              LET supplied == GetOr(Entries(r)[i].submission_json, d[1], NULL)
              IN  Values(r.document.children[i], d[1]) =
                      <<<<d[1], IF supplied = NULL THEN d[2] ELSE supplied>>>>

-----------------------------------------------------------------------------
(* Null and missing values: claim C22 *)

\* C22: no returned document holds an element for a payload key whose value
\* is null or missing: no SAMPLE_ATTRIBUTE or EXPERIMENT_ATTRIBUTE with an
\* empty VALUE, no DESCRIPTION of a sample, and no DESIGN_DESCRIPTION,
\* LIBRARY_NAME, LIBRARY_STRATEGY, INSERT_SIZE or INSTRUMENT_MODEL of an
\* experiment whose payload lacks or nulls the key.
C22_NoElementForNullOrMissing ==
    LET Entries(r) ==
            IF response.op \in {"generate_sample_xml", "generate_experiment_xml"}
              THEN <<r.args>> ELSE r.args
        RECURSIVE Tags(_)
        Tags(element) ==
            {element.tag} \cup UNION {Tags(element.children[i]) : i \in DOMAIN element.children}
        RECURSIVE NoEmptyValue(_)
        NoEmptyValue(element) ==
            /\ element.tag = "VALUE" => element.text # NULL
            /\ \A i \in DOMAIN element.children : NoEmptyValue(element.children[i])
        Optional == {<<"design_description", "DESIGN_DESCRIPTION">>,
                     <<"library_name", "LIBRARY_NAME">>,
                     <<"library_strategy", "LIBRARY_STRATEGY">>,
                     <<"insert_size", "INSERT_SIZE">>,
                     <<"instrument_model", "INSTRUMENT_MODEL">>}
    IN  /\ response.op \in {"generate_sample_xml", "generate_samples_xml"}
           /\ response.code = 200 =>
              \A r \in response.body : \A i \in DOMAIN Entries(r) :
                  /\ NoEmptyValue(r.document.children[i])
                  /\ GetOr(Entries(r)[i].submission_json, "description", NULL) = NULL =>
                        "DESCRIPTION" \notin Tags(r.document.children[i])
        /\ response.op \in {"generate_experiment_xml", "generate_experiments_xml"}
           /\ response.code = 200 =>
              \A r \in response.body : \A i \in DOMAIN Entries(r) :
                  /\ NoEmptyValue(r.document.children[i])
                  /\ \A o \in Optional :
                        GetOr(Entries(r)[i].submission_json, o[1], NULL) = NULL =>
                           o[2] \notin Tags(r.document.children[i])

-----------------------------------------------------------------------------
(* The taxonomy of a SAMPLE: claim C23 *)

\* C23: the document a sample generator returns does not depend on the
\* taxon_id, scientific_name and common_name keys of the payload: it is the
\* document returned for the payload without these keys, and the SAMPLE_NAME
\* of the single-sample generator holds the organism's three values.
C23_TaxonomyFromOrganismOnly ==
    LET Strip(json) ==
            SelectSeq(json, LAMBDA kv : kv[1] \notin {"taxon_id", "scientific_name",
                                                       "common_name"})
        organism_row == [tax_id |-> "t1", scientific_name |-> "n1", common_name |-> NULL]
    IN  /\ response.op = "generate_sample_xml" /\ response.code = 200 =>
              \A r \in response.body :
                  /\ r.document =
                        generate_sample_xml(organism_row, Strip(r.args.submission_json),
                                            r.args.alias, "AToL", "AToL", r.args.accession)
                  /\ r.document.children[1].children[3].children =
                        <<TextElement("TAXON_ID", organism_row.tax_id),
                          TextElement("SCIENTIFIC_NAME", organism_row.scientific_name),
                          TextElement("COMMON_NAME", organism_row.common_name)>>
        /\ response.op = "generate_samples_xml" /\ response.code = 200 =>
              \A r \in response.body :
                  r.document =
                     generate_samples_xml(
                         [i \in DOMAIN r.args |->
                             [r.args[i] EXCEPT !.submission_json = Strip(@)]])

-----------------------------------------------------------------------------
(* LIBRARY_LAYOUT: claim C24 *)

\* C24: in every returned EXPERIMENT, LIBRARY_LAYOUT has exactly one child:
\* for a payload whose library_layout is PAIRED a PAIRED element, with the
\* attribute NOMINAL_LENGTH holding nominal_length when the payload supplies
\* one and no attribute otherwise; for any other payload a SINGLE element
\* with no children and no attributes.
C24_LibraryLayoutHasOneChild ==
    LET Entries(r) == IF response.op = "generate_experiment_xml" THEN <<r.args>> ELSE r.args
    IN  response.op \in {"generate_experiment_xml", "generate_experiments_xml"}
        /\ response.code = 200 =>
          \A r \in response.body : \A i \in DOMAIN Entries(r) :
              LET submission_json == Entries(r)[i].submission_json
                  nominal_length == GetOr(submission_json, "nominal_length", NULL)
                  library_layout == r.document.children[i].children[4].children[3].children[7]
              IN  /\ library_layout.tag = "LIBRARY_LAYOUT"
                  /\ library_layout.children =
                        IF GetOr(submission_json, "library_layout", NULL) = "PAIRED"
                          THEN <<Element("PAIRED",
                                         IF nominal_length # NULL
                                           THEN {<<"NOMINAL_LENGTH", nominal_length>>}
                                           ELSE {},
                                         NULL, << >>)>>
                          ELSE <<Element("SINGLE", {}, NULL, << >>)>>

-----------------------------------------------------------------------------
(* Key order: claim C25 *)

\* C25: the document returned for a payload is the document returned for
\* every payload that holds the same keys and values in another order, for
\* the single-sample and the single-experiment generator.
C25_DocumentIndependentOfKeyOrder ==
    LET Same(json, other) ==
            /\ Len(json) = Len(other)
            /\ {json[i] : i \in DOMAIN json} = {other[i] : i \in DOMAIN other}
    IN  /\ response.op = "generate_sample_xml" /\ response.code = 200 =>
              \A r \in response.body : \A x \in SampleInputs :
                  Same(x.submission_json, r.args.submission_json) =>
                     r.document =
                        generate_sample_xml(
                            [tax_id |-> "t1", scientific_name |-> "n1", common_name |-> NULL],
                            x.submission_json, r.args.alias, "AToL", "AToL", r.args.accession)
        /\ response.op = "generate_experiment_xml" /\ response.code = 200 =>
              \A r \in response.body : \A x \in ExperimentInputs :
                  Same(x.submission_json, r.args.submission_json) =>
                     r.document =
                        generate_experiment_xml(x.submission_json, r.args.alias,
                                                "AToL", "AToL", r.args.accession)

-----------------------------------------------------------------------------
(* XML export of stored rows (app/api/v1/endpoints/xml_export_runs.py,
   xml_export_experiments.py) *)

\* GET /reads/xml; the body of the response is the document, here the reads
\* it holds a RUN for. The query parameter `status` shadows fastapi's status
\* module in the handler, so status.HTTP_404_NOT_FOUND and
\* status.HTTP_400_BAD_REQUEST raise AttributeError and the request ends in 500
get_reads_xml(u, read_ids, experiment_id, status) ==
    /\ UNCHANGED <<store, staged, fetched, bulk, auth>>
    /\ IF ~get_current_active_user(u)
         THEN Respond("get_reads_xml", u, 400, {})
       ELSE LET reads == {r \in DOMAIN read :
                            /\ read_ids # {} => r \in read_ids
                            /\ experiment_id # NULL => read[r].experiment_id = experiment_id
                            /\ Truthy(status) => read[r].status = status}
                reads_data == {r \in reads : ~Falsy(read[r].submission_json)}
            IN  IF reads = {}
                  THEN Respond("get_reads_xml", u, 500, {})
                ELSE IF reads_data = {}
                  THEN Respond("get_reads_xml", u, 500, {})
                ELSE Respond("get_reads_xml", u, 200, reads_data)

\* GET /experiments/xml; the body of the response is the document, here the
\* staging rows it holds an EXPERIMENT for; `status` shadows the module as in
\* get_reads_xml
get_experiments_xml(u, experiment_ids, status) ==
    /\ UNCHANGED <<store, staged, fetched, bulk, auth>>
    /\ IF ~get_current_active_user(u)
         THEN Respond("get_experiments_xml", u, 400, {})
       ELSE LET experiments == {i \in DOMAIN staged :
                                  /\ staged[i].kind = "experiment"
                                  /\ experiment_ids # {} =>
                                        staged[i].experiment_id \in experiment_ids
                                  /\ Truthy(status) => staged[i].status = status}
                experiments_data == {i \in experiments :
                                       ~Falsy(staged[i].submission_json)}
            IN  IF experiments = {}
                  THEN Respond("get_experiments_xml", u, 500, {})
                ELSE IF experiments_data = {}
                  THEN Respond("get_experiments_xml", u, 500, {})
                ELSE Respond("get_experiments_xml", u, 200, experiments_data)

\* the callers of the export requests
ExportCallers == {"curator", "inactive"}

\* a package whose experiment has two runs, the second with none of the keys
\* of the run mapping; staging rows with and without a JSON object
NextExport ==
    \/ \E j \in BulkJobs, u \in ExportCallers :
          bulk_import_experiments(j, u,
             << <<"p1", [bpa_sample_id |-> "b1", bpa_library_id |-> "l1",
                         runs |-> << [bpa_dataset_id |-> "d1", bpa_resource_id |-> "f1",
                                      file_name |-> "f1.gz"],
                                     [bpa_dataset_id |-> "d2", bpa_resource_id |-> "f2"] >>]>> >>)
    \/ \E j \in BulkJobs : bulk_import_experiments_check(j)
    \/ \E j \in BulkJobs, db_ok \in BOOLEAN : bulk_import_experiments_commit(j, db_ok)
    \/ \E j \in BulkJobs : bulk_import_return(j)
    \/ \E u \in ExportCallers, inp \in StageInputs : create_sample_submission(u, inp)
    \/ \E u \in ExportCallers, s \in DOMAIN sample, json \in {JsonNull} \cup JsonInputs :
          create_experiment_submission(u,
             [organism_id |-> NULL, sample_id |-> s, experiment_id |-> NULL,
              status |-> DRAFT, submission_json |-> json, submitted_at |-> NULL])
    \/ \E u \in ExportCallers, id \in FetchSampleIds : get_sample_xml(u, id)
    \/ \E u \in ExportCallers, ids \in SUBSET ReadIds,
          e \in {NULL} \cup ExperimentIds, st \in {NULL, "draft"} :
          get_reads_xml(u, ids, e, st)
    \/ \E u \in ExportCallers, ids \in SUBSET ExperimentIds, st \in {NULL, "draft"} :
          get_experiments_xml(u, ids, st)

SpecExport == Init /\ [][NextExport]_vars

\* C26: XML generation never returns a partial document: a request for the
\* document of a sample whose staging rows all lack submission_json ends in a
\* 4xx error with no document, and a batch request for RUN or EXPERIMENT
\* documents that answers 200 holds an element for every record it selected
C26_NoPartialDocument ==
    [][ /\ \A u \in ExportCallers, id \in FetchSampleIds :
              (/\ get_sample_xml(u, id)
               /\ \A i \in DOMAIN staged :
                     staged[i].kind = "sample" /\ staged[i].sample_id = id =>
                        Falsy(staged[i].submission_json))
              => response'.code \in {400, 404} /\ response'.body = {}
        /\ \A u \in ExportCallers, ids \in SUBSET ReadIds,
              e \in {NULL} \cup ExperimentIds, st \in {NULL, "draft"} :
              get_reads_xml(u, ids, e, st) /\ response'.code = 200
              => response'.body =
                    {r \in DOMAIN read :
                       /\ ids # {} => r \in ids
                       /\ e # NULL => read[r].experiment_id = e
                       /\ st # NULL => read[r].status = st}
        /\ \A u \in ExportCallers, ids \in SUBSET ExperimentIds, st \in {NULL, "draft"} :
              get_experiments_xml(u, ids, st) /\ response'.code = 200
              => response'.body =
                    {i \in DOMAIN staged :
                       /\ staged[i].kind = "experiment"
                       /\ ids # {} => staged[i].experiment_id \in ids
                       /\ st # NULL => staged[i].status = st} ]_vars

-----------------------------------------------------------------------------
(* Deleting records (app/api/v1/endpoints/organisms.py, experiments.py) *)

\* DELETE /organisms/{organism_id}; db.delete(organism) makes the ORM set the
\* foreign key of the rows behind the backref `samples` to NULL, which
\* sample.organism_id (nullable) accepts; the staging rows that name the
\* organism are behind no backref and are left to the foreign key constraint
delete_organism(u, id) ==
    /\ UNCHANGED <<experiment, read, staged, fetched, bulk, auth>>
    /\ IF ~get_current_superuser(u)
         THEN Respond("delete_organism", u, 403, {}) /\ UNCHANGED <<organism, sample>>
       ELSE IF id \notin DOMAIN organism
         THEN Respond("delete_organism", u, 404, {}) /\ UNCHANGED <<organism, sample>>
       ELSE IF \E i \in DOMAIN staged : staged[i].organism_id = id
         THEN Respond("delete_organism", u, 500, {}) /\ UNCHANGED <<organism, sample>>
       ELSE /\ organism' = Remove(organism, id)
            /\ sample' = [s \in DOMAIN sample |->
                            IF sample[s].organism_id = id
                              THEN [sample[s] EXCEPT !.organism_id = NULL]
                              ELSE sample[s]]
            /\ Respond("delete_organism", u, 200, {id})

\* DELETE /experiments/{experiment_id}; the ORM sets the foreign key of the
\* rows behind the backrefs of Experiment to NULL: read.experiment_id is NOT
\* NULL and refuses, experiment_submitted.experiment_id and
\* experiment_fetched.experiment_id are nullable; the assembly staging rows
\* that name the experiment are left to the foreign key constraint
delete_experiment(u, id) ==
    /\ UNCHANGED <<organism, sample, read, bulk, auth>>
    /\ IF ~get_current_superuser(u)
         THEN Respond("delete_experiment", u, 403, {}) /\ UNCHANGED <<experiment, staged, fetched>>
       ELSE IF id \notin DOMAIN experiment
         THEN Respond("delete_experiment", u, 404, {}) /\ UNCHANGED <<experiment, staged, fetched>>
       ELSE IF \/ \E r \in DOMAIN read : read[r].experiment_id = id
               \/ \E i \in DOMAIN staged :
                     staged[i].kind # "experiment" /\ staged[i].experiment_id = id
         THEN Respond("delete_experiment", u, 500, {}) /\ UNCHANGED <<experiment, staged, fetched>>
       ELSE /\ experiment' = Remove(experiment, id)
            /\ staged' = [i \in DOMAIN staged |->
                            IF staged[i].kind = "experiment" /\ staged[i].experiment_id = id
                              THEN [staged[i] EXCEPT !.experiment_id = NULL]
                              ELSE staged[i]]
            /\ fetched' = [i \in DOMAIN fetched |->
                            IF fetched[i].kind = "experiment" /\ fetched[i].record_id = id
                              THEN [fetched[i] EXCEPT !.record_id = NULL]
                              ELSE fetched[i]]
            /\ Respond("delete_experiment", u, 200, {id})

\* the callers of the delete requests: one with a role, one privileged
DeleteCallers == {"curator", "root"}

\* the packages imported: one with a run, one without runs; imports start
\* while the staging table has room
NextDelete ==
    \/ \E j \in BulkJobs,
          data \in {<<exp_p1>>, << <<"p5", [bpa_sample_id |-> "b1", bpa_library_id |-> "l5"]>> >>} :
          Len(staged) < MaxStaged /\ bulk_import_experiments(j, "curator", data)
    \/ \E j \in BulkJobs : bulk_import_experiments_check(j)
    \/ \E j \in BulkJobs, db_ok \in BOOLEAN : bulk_import_experiments_commit(j, db_ok)
    \/ \E j \in BulkJobs : bulk_import_return(j)
    \/ \E u \in DeleteCallers, inp \in StageInputs : create_sample_submission(u, inp)
    \/ \E u \in DeleteCallers, id \in OrganismIds : delete_organism(u, id)
    \/ \E u \in DeleteCallers, id \in FetchSampleIds : delete_sample(u, id)
    \/ \E u \in DeleteCallers, id \in ExperimentIds : delete_experiment(u, id)

SpecDelete == Init /\ [][NextDelete]_vars

\* C27: deleting a parent record is never cascaded and never leaves orphans:
\* a delete of an organism that has samples, of a sample that has experiments
\* or of an experiment that has reads ends in an error with the store
\* unchanged, and in every state the foreign key of each sample, experiment
\* and read names a stored parent
C27_DeleteOfParentRefused ==
    /\ [](/\ \A s \in DOMAIN sample : sample[s].organism_id \in DOMAIN organism
          /\ \A e \in DOMAIN experiment : experiment[e].sample_id \in DOMAIN sample
          /\ \A r \in DOMAIN read : read[r].experiment_id \in DOMAIN experiment)
    /\ [][ /\ \A u \in DeleteCallers, id \in OrganismIds :
                 (/\ delete_organism(u, id)
                  /\ \E s \in DOMAIN sample : sample[s].organism_id = id)
                 => response'.code >= 400 /\ UNCHANGED <<store, staged, fetched>>
           /\ \A u \in DeleteCallers, id \in FetchSampleIds :
                 (/\ delete_sample(u, id)
                  /\ \E e \in DOMAIN experiment : experiment[e].sample_id = id)
                 => response'.code >= 400 /\ UNCHANGED <<store, staged, fetched>>
           /\ \A u \in DeleteCallers, id \in ExperimentIds :
                 (/\ delete_experiment(u, id)
                  /\ \E r \in DOMAIN read : read[r].experiment_id = id)
                 => response'.code >= 400 /\ UNCHANGED <<store, staged, fetched>> ]_vars

-----------------------------------------------------------------------------
(* Refresh tokens (app/api/v1/endpoints/auth.py, app/models/token.py) *)

\* the values generate_refresh_token() can return
TokenValues == {"t1", "t2", "t3"}

\* the /refresh requests in flight or answered, and the accounts they are for
RefreshRequests == {"q1", "q2"}
TokenUsers == {"viewer", "curator"}

\* hash_token: the SHA-256 hex digest of the value; distinct values of the
\* pool have distinct digests
hash_token(token) == "sha256:" \o token

\* the values of the pool, in the order generate_refresh_token() returns them
\* here: a value no stored token was made from
generate_refresh_token == "t" \o ToString(Len(refresh_tokens) + 1)

\* RefreshToken(token_hash, user_id, expires_at, revoked=False); expired stands
\* for expires_at <= utcnow()
NewRefreshToken(value, user_id) ==
    [token_hash |-> hash_token(value), user_id |-> user_id,
     expired |-> FALSE, revoked |-> FALSE]

\* POST /login; password_ok is the verdict of verify_password
login_access_token(u, password_ok) ==
    /\ UNCHANGED <<store, staged, fetched, bulk, users, request>>
    /\ IF u \notin DOMAIN users \/ ~password_ok
         THEN Respond("login_access_token", u, 401, {}) /\ UNCHANGED refresh_tokens
       ELSE IF ~users[u].is_active
         THEN Respond("login_access_token", u, 400, {}) /\ UNCHANGED refresh_tokens
       ELSE LET value == generate_refresh_token IN
            /\ value \in TokenValues
            /\ refresh_tokens' = Append(refresh_tokens, NewRefreshToken(value, u))
            /\ Respond("login_access_token", u, 200, {value})

\* POST /refresh up to the writes: the token row and the user are read
refresh_token_query(q, value) ==
    /\ q \notin DOMAIN request
    /\ UNCHANGED <<store, staged, fetched, bulk, users, refresh_tokens>>
    /\ LET found == {i \in DOMAIN refresh_tokens :
                       /\ refresh_tokens[i].token_hash = hash_token(value)
                       /\ ~refresh_tokens[i].expired
                       /\ ~refresh_tokens[i].revoked}
           answer(stored_token, user_ok, code) ==
               [refresh_token |-> value, stored_token |-> stored_token,
                user_ok |-> user_ok, code |-> code, issued |-> NULL]
       IN  IF found = {}
             THEN /\ request' = Insert(request, q, answer(0, FALSE, 401))
                  /\ Respond("refresh_token", "viewer", 401, {})
             ELSE \E i \in found :
                    LET user_id == refresh_tokens[i].user_id IN
                    /\ request' = Insert(request, q,
                                     answer(i, user_id \in DOMAIN users
                                               /\ users[user_id].is_active, 0))
                    /\ UNCHANGED response

\* POST /refresh from stored_token.revoked = True to the response: the token
\* is revoked; for an active user a new token is stored with it
refresh_token_commit(q) ==
    /\ q \in DOMAIN request
    /\ request[q].code = 0
    /\ UNCHANGED <<store, staged, fetched, bulk, users>>
    /\ LET stored_token == request[q].stored_token
           user_id == refresh_tokens[stored_token].user_id
           revoke == [refresh_tokens EXCEPT ![stored_token].revoked = TRUE]
       IN  IF ~request[q].user_ok
             THEN /\ refresh_tokens' = revoke
                  /\ request' = [request EXCEPT ![q].code = 401]
                  /\ Respond("refresh_token", user_id, 401, {})
             ELSE LET value == generate_refresh_token IN
                  /\ value \in TokenValues
                  /\ refresh_tokens' = Append(revoke, NewRefreshToken(value, user_id))
                  /\ request' = [request EXCEPT ![q].code = 200, ![q].issued = value]
                  /\ Respond("refresh_token", user_id, 200, {value})

\* logout without the filter on user_id: every token is revoked
logout_of_every_user(u) ==
    /\ UNCHANGED <<store, staged, fetched, bulk, users, request>>
    /\ IF u \notin DOMAIN users
         THEN Respond("logout", u, 401, {}) /\ UNCHANGED refresh_tokens
       ELSE IF ~users[u].is_active
         THEN Respond("logout", u, 400, {}) /\ UNCHANGED refresh_tokens
       ELSE /\ refresh_tokens' =
                 [i \in DOMAIN refresh_tokens |->
                    [refresh_tokens[i] EXCEPT !.revoked = TRUE]]
            /\ Respond("logout", u, 200, {})

\* POST /logout; get_current_user refuses an inactive caller with 400
logout(u) ==
    /\ UNCHANGED <<store, staged, fetched, bulk, users, request>>
    /\ IF u \notin DOMAIN users
         THEN Respond("logout", u, 401, {}) /\ UNCHANGED refresh_tokens
       ELSE IF ~users[u].is_active
         THEN Respond("logout", u, 400, {}) /\ UNCHANGED refresh_tokens
       ELSE /\ refresh_tokens' =
                 [i \in DOMAIN refresh_tokens |->
                    IF refresh_tokens[i].user_id = u /\ ~refresh_tokens[i].revoked
                      THEN [refresh_tokens[i] EXCEPT !.revoked = TRUE]
                      ELSE refresh_tokens[i]]
            /\ Respond("logout", u, 200, {})

\* PUT /users/{user_id} with is_active in the body
update_user(u, user_id, is_active) ==
    /\ UNCHANGED <<store, staged, fetched, bulk, refresh_tokens, request>>
    /\ IF ~get_current_superuser(u)
         THEN Respond("update_user", u, 403, {}) /\ UNCHANGED users
       ELSE IF user_id \notin DOMAIN users
         THEN Respond("update_user", u, 404, {}) /\ UNCHANGED users
       ELSE /\ users' = [users EXCEPT ![user_id].is_active = is_active]
            /\ Respond("update_user", u, 200, {user_id})

\* utcnow() passes the expires_at of a token that is still of use
expire(i) ==
    /\ i \in DOMAIN refresh_tokens
    /\ ~refresh_tokens[i].expired
    /\ ~refresh_tokens[i].revoked
    /\ refresh_tokens' = [refresh_tokens EXCEPT ![i].expired = TRUE]
    /\ UNCHANGED <<store, staged, fetched, bulk, users, request, response>>

NextToken ==
    \/ \E u \in TokenUsers, password_ok \in BOOLEAN : login_access_token(u, password_ok)
    \/ \E q \in RefreshRequests, value \in TokenValues : refresh_token_query(q, value)
    \/ \E q \in RefreshRequests : refresh_token_commit(q)
    \/ \E u \in TokenUsers : logout(u)
    \/ \E is_active \in BOOLEAN : update_user("root", "curator", is_active)
    \/ \E i \in 1..Cardinality(TokenValues) : expire(i)

SpecToken == Init /\ [][NextToken]_vars

\* C28: a refresh token is single-use: the token of a /refresh that succeeded
\* is revoked, and a /refresh that presents it later is answered 401; no step
\* takes the revoked flag of a token back to false; and of the /refresh
\* requests that present the same token, however their steps interleave, at
\* most one succeeds and issues new tokens
C28_RefreshTokenSingleUse ==
    /\ [](\A q \in DOMAIN request :
            request[q].code = 200 =>
               \A i \in DOMAIN refresh_tokens :
                  refresh_tokens[i].token_hash = hash_token(request[q].refresh_token)
                     => refresh_tokens[i].revoked)
    /\ [][\A q \in RefreshRequests, value \in TokenValues :
             (/\ refresh_token_query(q, value)
              /\ \E p \in DOMAIN request :
                    request[p].code = 200 /\ request[p].refresh_token = value)
             => request'[q].code = 401]_vars
    /\ [][\A i \in DOMAIN refresh_tokens :
             refresh_tokens[i].revoked =>
                i \in DOMAIN refresh_tokens' /\ refresh_tokens'[i].revoked]_vars
    /\ [](\A p, q \in DOMAIN request :
            (p # q /\ request[p].code = 200 /\ request[q].code = 200)
               => request[p].refresh_token # request[q].refresh_token)

-----------------------------------------------------------------------------
(* The standalone import script: import_experiments *)

\* import_experiments(conn, experiments_data, sample_package_map,
\* sample_id_map) is called by main(). A row of data is one pass of the loops,
\* <<package_id, [sample_name |-> ...]>>, or <<package_id, [a |-> ...]>> for a
\* package that no sample of sample_package_map names
import_experiments(j, data) ==
    /\ j \notin DOMAIN job
    /\ UNCHANGED <<store, staged, fetched, history, response, auth>>
    /\ job' = [i \in DOMAIN job \cup {j} |->
                 IF i = j THEN NewJob("script_experiment", NULL, data)
                          ELSE [job[i] EXCEPT !.alone = FALSE]]

\* one pass of the loops up to the try block; sample_id_map holds the samples
\* import_samples found or created, by name
import_experiments_check(j) ==
    /\ AtRow(j, "script_experiment", "check")
    /\ UNCHANGED <<store, staged, fetched, history, response, auth>>
    /\ LET package_id == job[j].data[job[j].idx][1]
           sample_name == Get(job[j].data[job[j].idx][2], "sample_name")
           sample_id_map == {s \in DOMAIN sample : sample[s].bpa_sample_id = sample_name}
       IN  IF sample_name = NULL
             THEN Skip(j)
           ELSE IF sample_id_map = {}
             THEN Skip(j)
           ELSE IF \E e \in DOMAIN experiment : experiment[e].bpa_package_id = package_id
             THEN Skip(j)
           ELSE Proceed(j, CHOOSE s \in sample_id_map : TRUE)

\* the try block with a commit after INSERT INTO experiment: when the rest
\* fails, the experiment stays
import_experiments_commit_in_two(j, db_ok) ==
    /\ AtRow(j, "script_experiment", "commit")
    /\ UNCHANGED <<organism, sample, read, fetched, history, response, auth>>
    /\ LET package_id == job[j].data[job[j].idx][1]
           sample_id == job[j].parent
           duplicate == \E e \in DOMAIN experiment :
                           experiment[e].bpa_package_id = package_id
       IN  IF /\ ~duplicate
              /\ FkOk(sample_id, sample, FALSE)
              /\ ExperimentIds \ DOMAIN experiment # {}
             THEN LET experiment_id == FreshId(ExperimentIds, experiment) IN
                  /\ experiment' = Insert(experiment, experiment_id,
                                          [sample_id |-> sample_id,
                                           bpa_package_id |-> package_id])
                  /\ IF db_ok
                       THEN /\ staged' = Append(staged,
                                      [kind            |-> "experiment",
                                       organism_id     |-> NULL,
                                       sample_id       |-> sample_id,
                                       experiment_id   |-> experiment_id,
                                       status          |-> StatusColumnDefault,
                                       submission_json |-> JsonNull,
                                       submitted_at    |-> NULL])
                            /\ Created(j)
                       ELSE /\ UNCHANGED staged
                            /\ RolledBack(j)
             ELSE /\ UNCHANGED <<experiment, staged>>
                  /\ RolledBack(j)

\* the try block: INSERT INTO experiment; INSERT INTO experiment_submitted
\* (without a submission payload); conn.commit(); or conn.rollback()
import_experiments_commit(j, db_ok) ==
    /\ AtRow(j, "script_experiment", "commit")
    /\ UNCHANGED <<organism, sample, read, fetched, history, response, auth>>
    /\ LET package_id == job[j].data[job[j].idx][1]
           sample_id == job[j].parent
           duplicate == \E e \in DOMAIN experiment :
                           experiment[e].bpa_package_id = package_id
       IN  IF /\ db_ok
              /\ ~duplicate
              /\ FkOk(sample_id, sample, FALSE)
              /\ ExperimentIds \ DOMAIN experiment # {}
             THEN LET experiment_id == FreshId(ExperimentIds, experiment) IN
                  /\ experiment' = Insert(experiment, experiment_id,
                                          [sample_id |-> sample_id,
                                           bpa_package_id |-> package_id])
                  /\ staged' = Append(staged,
                                      [kind            |-> "experiment",
                                       organism_id     |-> NULL,
                                       sample_id       |-> sample_id,
                                       experiment_id   |-> experiment_id,
                                       status          |-> StatusColumnDefault,
                                       submission_json |-> JsonNull,
                                       submitted_at    |-> NULL])
                  /\ Created(j)
             ELSE /\ UNCHANGED <<experiment, staged>>
                  /\ RolledBack(j)

\* the loops are over: the counts are printed and returned to main()
import_experiments_return(j) ==
    /\ j \in DOMAIN job
    /\ job[j].kind = "script_experiment"
    /\ job[j].idx > Len(job[j].data)
    /\ UNCHANGED <<store, staged, fetched, response, auth>>
    /\ job' = Remove(job, j)
    /\ history' = IF Len(history) < MaxHistory
                    THEN Append(history, Returned(j))
                    ELSE Append(Tail(history), Returned(j))

\* the sample and experiment imports of the endpoints and the experiment
\* import of the script, row by row: bodies with two rows that pass the
\* lookups; the script is run with two packages of the stored sample and one
\* of a sample that is not stored
NextAtomic ==
    \/ \E j \in BulkJobs, u \in ImportCallers,
          data \in {<<smp_b4>>} \cup RaceSampleDatasets :
          bulk_import_samples(j, u, data)
    \/ \E j \in BulkJobs : bulk_import_samples_check(j)
    \/ \E j \in BulkJobs, db_ok \in BOOLEAN : bulk_import_samples_commit(j, db_ok)
    \/ \E j \in BulkJobs, u \in ImportCallers,
          data \in {<<exp_p1, <<"p5", [bpa_sample_id |-> "b1", bpa_library_id |-> "l5"]>> >>} :
          bulk_import_experiments(j, u, data)
    \/ \E j \in BulkJobs : bulk_import_experiments_check(j)
    \/ \E j \in BulkJobs, db_ok \in BOOLEAN : bulk_import_experiments_commit(j, db_ok)
    \/ \E j \in BulkJobs : bulk_import_return(j)
    \/ \E j \in BulkJobs :
          import_experiments(j, << <<"p6", [sample_name |-> "b1"]>>,
                                   <<"p7", [sample_name |-> "b1"]>>,
                                   <<"p8", [sample_name |-> "b9"]>> >>)
    \/ \E j \in BulkJobs : import_experiments_check(j)
    \/ \E j \in BulkJobs, db_ok \in BOOLEAN : import_experiments_commit(j, db_ok)
    \/ \E j \in BulkJobs : import_experiments_return(j)

SpecAtomic == Init /\ [][NextAtomic]_vars

\* C30: a bulk import creates a record and its staging row together: when an
\* import of samples or experiments has returned, whatever rows of it failed,
\* every record it created has exactly one of the staging rows it created
\* referring to it, every staging row it created refers to a record that is
\* stored, and its created_count is the number of records it stored
C30_RecordAndStagingRowTogether ==
    \A n \in 1..Len(history) :
        LET h == history[n]
            experiments == h.kind \in {"experiment", "script_experiment"}
            own == IF experiments THEN 3 ELSE 2
            created == DOMAIN h.after[own] \ DOMAIN h.before[own]
            rows == (Len(h.before[5]) + 1)..Len(h.after[5])
            ref(i) == IF experiments THEN h.after[5][i].experiment_id
                                     ELSE h.after[5][i].sample_id
        IN  /\ \A id \in created : Cardinality({i \in rows : ref(i) = id}) = 1
            /\ \A i \in rows : ref(i) \in created
            /\ h.created_count = Cardinality(created)

\* an import has returned in which one row failed to persist and another
\* was created
C30_Witness ==
    \E n \in 1..Len(history) :
        /\ history[n].failed > 0
        /\ history[n].created_count > 0
        /\ Len(history[n].after[5]) > Len(history[n].before[5])


====
